---- MODULE Spec2Model ----
(***************************************************************************)
(* Plan execution of the agent API: HttpExecutorService.executePlan and    *)
(* the step pipeline below it (parameter generation, status validation,    *)
(* path-parameter validation, HTTP dispatch, result recording).            *)
(*                                                                         *)
(* JavaScript values are tagged records [t |-> <type>, v |-> <value>].     *)
(* Path templates are sequences of one-character strings, so that the      *)
(* placeholder regular expression is computed, not assumed.  The source's  *)
(* Russian message prefixes are transliterated (the parser reads ASCII).   *)
(***************************************************************************)
EXTENDS Integers, Sequences, FiniteSets, TLC

VARIABLES plan, results, idx, pc, parameterResult, aiCalls, httpCalls,
          lastHttp, raised, escaped, lastGen, previousResults,
          request, bpc, finalUrl, pk,
          registry, tasks, opc, content, relevantApis, relevantFeatures,
          endpointSequence, finalPlan, planError, httpToolResult,
          executionResults, executed, queryResponse,
          swaggerCache, server, cpc, call, returned, fetched, resolved,
          responses, jsonContents, parseResults,
          renderJson, requestBody, frames, description, rendered,
          runs, concCache, concServer,
          clsPc, clsResponse, clsTasks, clsResult,
          strPc, strTasks, strPlan, strStep, strResults, events, outbound, closed, failures

\* The variables of plan execution (HttpExecutorService.executePlan).
execVars == <<plan, results, idx, pc, parameterResult, aiCalls, httpCalls,
              lastHttp, raised, escaped, lastGen, previousResults>>

\* The variables of one makeHttpRequest (HttpRequestBuilder).
urlVars == <<request, bpc, finalUrl, pk>>

\* The variables of one processQuery (AgentOrchestratorService and
\* ApiPlannerService).
orchVars == <<registry, tasks, opc, content, relevantApis, relevantFeatures,
              endpointSequence, finalPlan, planError, httpToolResult,
              executionResults, executed, queryResponse>>

\* The variables of the schema resolver (SwaggerService) and of the servers
\* of the interface documents.
cacheVars == <<swaggerCache, server, cpc, call, returned, fetched, resolved>>

\* The variables of parseParameterResponse on a response text.
parseVars == <<responses, jsonContents, parseResults>>

\* The variables of formatRequestBodySchema on a body schema.
renderVars == <<renderJson, requestBody, frames, description, rendered>>

\* The variables of plan runs that resolve schemas at the same time.
concVars == <<runs, concCache, concServer>>

\* The variables of ClassifierService.classifyRequest.
classifyVars == <<clsPc, clsResponse, clsTasks, clsResult>>

\* The variables of processQueryWithStreaming and of its subscriber.
streamVars == <<strPc, strTasks, strPlan, strStep, strResults, events, outbound, closed, failures>>

\* What each part leaves alone.
otherVars == <<urlVars, orchVars, cacheVars, parseVars, renderVars, concVars, classifyVars, streamVars>>

notUrlVars == <<execVars, orchVars, cacheVars, parseVars, renderVars, concVars, classifyVars, streamVars>>

notOrchVars == <<execVars, urlVars, cacheVars, parseVars, renderVars, concVars, classifyVars, streamVars>>

notCacheVars == <<execVars, urlVars, orchVars, parseVars, renderVars, concVars, classifyVars, streamVars>>

notParseVars == <<execVars, urlVars, orchVars, cacheVars, renderVars, concVars, classifyVars, streamVars>>

notRenderVars == <<execVars, urlVars, orchVars, cacheVars, parseVars, concVars, classifyVars, streamVars>>

notConcVars == <<execVars, urlVars, orchVars, cacheVars, parseVars, renderVars, classifyVars, streamVars>>

notClassifyVars == <<execVars, urlVars, orchVars, cacheVars, parseVars, renderVars, concVars, streamVars>>

notStreamVars == <<execVars, urlVars, orchVars, cacheVars, parseVars, renderVars, concVars, classifyVars>>

vars == <<execVars, urlVars, orchVars, cacheVars, parseVars, renderVars, concVars, classifyVars, streamVars>>

\* No plan is being executed.
ExecIdle ==
    /\ plan = <<>> /\ results = <<>> /\ idx = 1 /\ pc = "done"
    /\ parameterResult = [status |-> "", parameters |-> <<>>,
                          body |-> [t |-> "null", v |-> ""],
                          message |-> [t |-> "undefined", v |-> ""]]
    /\ aiCalls = <<>> /\ httpCalls = <<>> /\ lastHttp = [kind |-> "none"]
    /\ raised = <<>> /\ escaped = FALSE /\ lastGen = [stage |-> "none"]
    /\ previousResults = <<>>

\* No request is being built.
UrlIdle ==
    /\ request = [baseUrl |-> <<>>, endpoint |-> <<>>, parameters |-> <<>>]
    /\ bpc = "idle" /\ finalUrl = <<>> /\ pk = 1

\* No query is being processed.
OrchIdle ==
    /\ registry = <<>> /\ tasks = <<>> /\ opc = "idle"
    /\ content = [kind |-> "none"]
    /\ relevantApis = <<>> /\ relevantFeatures = <<>>
    /\ endpointSequence = <<>> /\ finalPlan = <<>>
    /\ planError = ""
    /\ httpToolResult = [kind |-> "none"]
    /\ executionResults = [t |-> "null", v |-> ""] /\ executed = FALSE
    /\ queryResponse = [kind |-> "none"]

\* No schema is being resolved.
CacheIdle ==
    /\ swaggerCache = <<>> /\ server = <<>> /\ cpc = "idle"
    /\ call = [url |-> "", path |-> "", method |-> ""]
    /\ returned = [kind |-> "none"]
    /\ fetched = {} /\ resolved = <<>>

\* Nothing runs in parseParameterResponse on a response text.
ParseIdle ==
    /\ responses = <<>> /\ jsonContents = <<>> /\ parseResults = <<>>

\* Nothing runs in formatRequestBodySchema on a body schema.
RenderIdle ==
    /\ renderJson = <<>> /\ requestBody = <<>> /\ frames = <<>>
    /\ description = <<>> /\ rendered = [kind |-> "none"]

\* Nothing runs in plan runs that resolve schemas at the same time.
ConcIdle ==
    /\ runs = <<>> /\ concCache = <<>> /\ concServer = <<>>

\* Nothing runs in ClassifierService.classifyRequest.
ClassifyIdle ==
    /\ clsPc = "idle" /\ clsResponse = <<>> /\ clsTasks = <<>>
    /\ clsResult = [kind |-> "none"]

\* Nothing runs in processQueryWithStreaming and of its subscriber.
StreamIdle ==
    /\ strPc = "idle" /\ strTasks = <<>> /\ strPlan = [t |-> "null"] /\ strStep = 0
    /\ strResults = [t |-> "null"] /\ events = <<>> /\ outbound = <<>>
    /\ closed = FALSE /\ failures = {}

----------------------------------------------------------------------------
(* Bounds *)

MaxPlanLen == 3

----------------------------------------------------------------------------
(* Program constants *)

SUCCESS_MIN == 200

SUCCESS_MAX == 299

ExecutionErrorType ==
    {"SWAGGER_ERROR", "PARAMETER_GENERATION_ERROR", "HTTP_REQUEST_ERROR",
     "VALIDATION_ERROR", "INSUFFICIENT_DATA", "UNKNOWN_ERROR"}

\* ParameterValidationStatus as the enum lists it.
ParameterValidationStatus == {"SUCCESS", "INSUFFICIENT_DATA", "ERROR"}

\* The executor compares against ParameterValidationStatus.INSUFFICIENT_SCHEMA,
\* a member the enum text does not list; it is taken from the status list of
\* the specification, with the enum's convention that a value is its name.
INSUFFICIENT_SCHEMA == "INSUFFICIENT_SCHEMA"

----------------------------------------------------------------------------
(* JavaScript values *)

Undefined == [t |-> "undefined", v |-> ""]

Null == [t |-> "null", v |-> ""]

Str(s) == [t |-> "string", v |-> s]

\* An object or array literal, identified by its JSON text.
Obj(json) == [t |-> "object", v |-> json]

\* JavaScript truthiness of the values above.
Truthy(x) == x.t = "object" \/ (x.t = "string" /\ x.v # "")

\* a || b
OrElse(a, b) == IF Truthy(a) THEN a ELSE b

\* `${x}` : template-literal conversion to a string.
Template(x) ==
    CASE x.t = "undefined" -> "undefined"
      [] x.t = "null" -> "null"
      [] x.t = "string" -> x.v
      [] OTHER -> "[object Object]"

\* JSON.stringify(x): a string value, or undefined for undefined.
JSONStringify(x) ==
    CASE x.t = "undefined" -> Undefined
      [] x.t = "null" -> Str("null")
      [] x.t = "string" -> Str("\"" \o x.v \o "\"")
      [] OTHER -> Str(x.v)

\* Array.prototype.join for an array of strings.
RECURSIVE Join(_, _)
Join(names, sep) ==
    IF names = <<>> THEN ""
    ELSE IF Len(names) = 1 THEN names[1]
    ELSE names[1] \o sep \o Join(Tail(names), sep)

\* A sequence of one-character strings as a string.
RECURSIVE Chars2Str(_)
Chars2Str(cs) == IF cs = <<>> THEN "" ELSE cs[1] \o Chars2Str(Tail(cs))

----------------------------------------------------------------------------
(* Inputs: the endpoint catalog, backend answers, schema lookups, HTTP     *)
(* outcomes.                                                               *)

\* Endpoint descriptors a plan step can carry: method, path template and the
\* location of the interface document ("" when the registry has none).
Catalog ==
    { [method |-> "GET",  endpoint |-> <<"/", "u">>, swaggerUrl |-> "http://doc"],
      [method |-> "GET",  endpoint |-> <<"/", "u", "/", "{", "a", "}">>,
       swaggerUrl |-> "http://doc"],
      [method |-> "POST", endpoint |-> <<"/", "{", "a", "}", "/", "{", "b", "}">>,
       swaggerUrl |-> "http://doc"],
      [method |-> "GET",  endpoint |-> <<"/", "u">>, swaggerUrl |-> ""] }

\* ApiCallPlan: the planner numbers the steps 1..N in plan order.
PlanStep(i, d) ==
    [step |-> i, endpoint |-> d.endpoint, method |-> d.method,
     swaggerUrl |-> d.swaggerUrl]

Plans ==
    UNION { { [i \in 1..n |-> PlanStep(i, ds[i])] : ds \in [1..n -> Catalog] }
            : n \in 0..MaxPlanLen }

\* ParameterValue
Param(name, value, location) ==
    [name |-> name, value |-> value, location |-> location]

PathA == Param("a", "1", "path")

PathB == Param("b", "2", "path")

QueryA == Param("a", "1", "query")

NoBody == Undefined

SomeBody == Obj("{\"k\":1}")

\* What JSON.parse yields for the backend's answer: a syntax error, null, or
\* an object with the fields the executor reads.  parameters is undefined
\* (absent), an array of ParameterValue, or something that is no array.
ParsedObject(status, message, parameters, body) ==
    [kind |-> "object", status |-> status, message |-> message,
     parameters |-> parameters, body |-> body]

Arr(seq) == [t |-> "array", items |-> seq]

NoArr(tag) == [t |-> tag, items |-> <<>>]

BackendJson ==
    { [kind |-> "syntaxError"], [kind |-> "null"],
      ParsedObject(Str("SUCCESS"), Undefined, Arr(<<>>), NoBody),
      ParsedObject(Str("SUCCESS"), Undefined, Arr(<<PathA>>), NoBody),
      ParsedObject(Str("SUCCESS"), Undefined, Arr(<<PathA, PathB>>), SomeBody),
      ParsedObject(Str("SUCCESS"), Undefined, Arr(<<QueryA>>), NoBody),
      ParsedObject(Str("SUCCESS"), Undefined, NoArr("string"), NoBody),
      ParsedObject(Undefined, Undefined, NoArr("undefined"), NoBody),
      ParsedObject(Str("INSUFFICIENT_DATA"), Str("missing X"), Arr(<<>>), SomeBody),
      ParsedObject(Str("INSUFFICIENT_DATA"), Undefined, Arr(<<>>), NoBody),
      ParsedObject(Str("INSUFFICIENT_DATA"), Str(""), Arr(<<PathA>>), NoBody),
      ParsedObject(Str("INSUFFICIENT_SCHEMA"), Str("schema has no body"), Arr(<<>>), NoBody),
      ParsedObject(Str("INSUFFICIENT_SCHEMA"), Undefined, NoArr("undefined"), NoBody),
      ParsedObject(Str("ERROR"), Str("boom"), Arr(<<>>), NoBody),
      ParsedObject(Str("PARTIAL"), Str("almost"), Arr(<<PathA>>), NoBody),
      ParsedObject(Str("PARTIAL"), Undefined, Arr(<<>>), NoBody) }

\* openaiService.generateAnswer: it throws, or returns a content.
BackendOutcomes ==
    { [kind |-> "throw", message |-> "backend unavailable"] }
    \cup { [kind |-> "content", json |-> j] : j \in BackendJson }

\* swaggerService.getEndpointSchema: a schema, null (no such operation), or
\* an exception (the document cannot be fetched).
SchemaOutcomes ==
    { [kind |-> "schema"], [kind |-> "null"],
      [kind |-> "throw", message |-> "Failed to fetch Swagger"] }

\* httpService.request: a response, an error carrying a response, or an
\* error without one.
HttpOutcomes ==
    { [kind |-> "response", status |-> 200, data |-> Obj("{\"id\":7}")],
      [kind |-> "response", status |-> 299, data |-> Null],
      [kind |-> "response", status |-> 199, data |-> Null],
      [kind |-> "response", status |-> 300, data |-> Str("moved")],
      [kind |-> "errorResponse", status |-> 404, data |-> Obj("{\"e\":1}")],
      [kind |-> "errorResponse", status |-> 500, data |-> Null],
      [kind |-> "errorResponse", status |-> 200, data |-> Obj("{\"id\":7}")],
      [kind |-> "noResponse", message |-> "ECONNREFUSED"] }

----------------------------------------------------------------------------
(* HttpExecutorService: the pure parts *)

\* ParameterGenerationResult
ParameterResult(status, parameters, body, message) ==
    [status |-> status, parameters |-> parameters, body |-> body,
     message |-> message]

\* No step is between parameter generation and recording.
NoParameterResult == ParameterResult("", <<>>, Null, Undefined)

createParameterError(message) ==
    ParameterResult("ERROR", <<>>, Null,
                    Str("Oshibka parsinga otveta II: " \o message))

buildParameterResult(parsed) ==
    IF parsed.status = Str("INSUFFICIENT_DATA")
    THEN ParameterResult("INSUFFICIENT_DATA", <<>>, Null, parsed.message)
    ELSE IF parsed.status = Str(INSUFFICIENT_SCHEMA)
    THEN ParameterResult(INSUFFICIENT_SCHEMA, <<>>, Null, parsed.message)
    ELSE ParameterResult(OrElse(parsed.status, Str("SUCCESS")).v,
                         IF parsed.parameters.t = "array"
                         THEN parsed.parameters.items ELSE <<>>,
                         OrElse(parsed.body, Null),
                         Undefined)

\* JSON.parse, then logPathParameters, then buildParameterResult: the
\* result, or the exception the first two raise.
\* A parser that takes a content it cannot parse for an empty success.
parseParameterResponseLenient(json) ==
    CASE json.kind \in {"syntaxError", "null"} ->
            [kind |-> "return", value |-> ParameterResult("SUCCESS", <<>>, Null, Undefined)]
      [] json.kind = "object" /\ json.parameters.t \notin {"array", "undefined"} ->
            [kind |-> "throw",
             message |-> "parsed.parameters?.filter is not a function"]
      [] OTHER -> [kind |-> "return", value |-> buildParameterResult(json)]

parseParameterResponse(json) ==
    CASE json.kind = "syntaxError" ->
            [kind |-> "throw", message |-> "Unexpected token in JSON"]
      [] json.kind = "null" ->
            [kind |-> "throw",
             message |-> "Cannot read properties of null (reading 'parameters')"]
      [] json.kind = "object" /\ json.parameters.t \notin {"array", "undefined"} ->
            [kind |-> "throw",
             message |-> "parsed.parameters?.filter is not a function"]
      [] OTHER -> [kind |-> "return", value |-> buildParameterResult(json)]

\* ExecutionResult
ExecutionResult(step, params, body, response, status, success, error, errorType, details) ==
    [step |-> step.step, endpoint |-> step.endpoint, method |-> step.method,
     requestParameters |-> params, requestBody |-> body,
     response |-> response, responseStatus |-> status,
     success |-> success, error |-> error, errorType |-> errorType,
     errorDetails |-> details]

createErrorResult(step, errorType, message) ==
    ExecutionResult(step, <<>>, Null, Null, 0, FALSE, message, Str(errorType),
                    message)

\* validateParameterResult with the error types of INSUFFICIENT_SCHEMA and
\* ERROR exchanged.
validateParameterResultSwapped(pr, step) ==
    IF pr.status = "INSUFFICIENT_DATA"
    THEN createErrorResult(step, "INSUFFICIENT_DATA",
                           OrElse(pr.message, Str("Insufficient data")))
    ELSE IF pr.status = INSUFFICIENT_SCHEMA
    THEN createErrorResult(step, "PARAMETER_GENERATION_ERROR",
                           OrElse(pr.message, Str("Insufficient schema")))
    ELSE IF pr.status = "ERROR"
    THEN createErrorResult(step, "SWAGGER_ERROR",
                           OrElse(pr.message, Str("Parameter generation error")))
    ELSE Null

\* null stands for "go on to the HTTP call".
validateParameterResult(pr, step) ==
    IF pr.status = "INSUFFICIENT_DATA"
    THEN createErrorResult(step, "INSUFFICIENT_DATA",
                           OrElse(pr.message, Str("Insufficient data")))
    ELSE IF pr.status = INSUFFICIENT_SCHEMA
    THEN createErrorResult(step, "SWAGGER_ERROR",
                           OrElse(pr.message, Str("Insufficient schema")))
    ELSE IF pr.status = "ERROR"
    THEN createErrorResult(step, "PARAMETER_GENERATION_ERROR",
                           OrElse(pr.message, Str("Parameter generation error")))
    ELSE Null

\* isSuccess with the upper end of the range left out.
isSuccessExclusive(status) == status >= SUCCESS_MIN /\ status < SUCCESS_MAX

isSuccess(status) == status >= SUCCESS_MIN /\ status <= SUCCESS_MAX

buildExecutionResult(step, pr, httpResult) ==
    ExecutionResult(step, pr.parameters, pr.body, httpResult.response,
                    httpResult.status, isSuccess(httpResult.status),
                    IF ~isSuccess(httpResult.status)
                    THEN Str("HTTP " \o ToString(httpResult.status) \o ": "
                             \o Template(JSONStringify(httpResult.response)))
                    ELSE Undefined,
                    Undefined, Undefined)

\* The index of the first "}" of e at or after i, 0 when there is none.
RECURSIVE NextClose(_, _)
NextClose(e, i) ==
    IF i > Len(e) THEN 0
    ELSE IF e[i] = "}" THEN i
    ELSE NextClose(e, i + 1)

\* endpoint.match(/\{([^}]+)\}/g) with the braces sliced off: the names of
\* the placeholders, left to right.
RECURSIVE PlaceholdersFrom(_, _)
PlaceholdersFrom(e, i) ==
    IF i > Len(e) THEN <<>>
    ELSE IF e[i] # "{" THEN PlaceholdersFrom(e, i + 1)
    ELSE LET j == NextClose(e, i + 1) IN
         IF j = 0 THEN <<>>
         ELSE IF j = i + 1 THEN PlaceholdersFrom(e, i + 1)
         ELSE <<Chars2Str(SubSeq(e, i + 1, j - 1))>> \o PlaceholdersFrom(e, j + 1)

requiredParams(endpoint) == PlaceholdersFrom(endpoint, 1)

\* validatePathParameters looking at the first placeholder only.
validatePathParametersFirstOnly(endpoint, pathParams) ==
    SelectSeq(IF requiredParams(endpoint) = <<>> THEN <<>>
              ELSE SubSeq(requiredParams(endpoint), 1, 1),
              LAMBDA name : ~(\E k \in 1..Len(pathParams) : pathParams[k].name = name))

\* The placeholders no parameter of pathParams is named after.
validatePathParameters(endpoint, pathParams) ==
    SelectSeq(requiredParams(endpoint),
              LAMBDA name : ~(\E k \in 1..Len(pathParams) : pathParams[k].name = name))

\* parameters.filter(p => p.location === 'path')
pathParamsOf(parameters) == SelectSeq(parameters, LAMBDA p : p.location = "path")

\* The catch block of executePlan: the result recorded for an exception.
unknownErrorResult(step, message) ==
    ExecutionResult(step, <<>>, Null, Null, 0, FALSE,
                    Str("Oshibka vypolneniya: " \o message),
                    Str("UNKNOWN_ERROR"), Str(message))

----------------------------------------------------------------------------
(* executePlan as a state machine.  pc is the position of the run:         *)
(*   "loop"     at the head of the for loop, about to take step idx         *)
(*   "schema"   awaiting swaggerService.getEndpointSchema                   *)
(*   "ai"       awaiting openaiService.generateAnswer                       *)
(*   "validate" generateParametersForStep has returned parameterResult      *)
(*   "http"     awaiting httpService.request                                *)
(*   "done"     executePlan has returned results                            *)
(* httpCalls lists the requests handed to the HTTP client and lastHttp is   *)
(* how the latest of them ended; raised lists the exceptions that left      *)
(* executeStep; escaped says that one left executePlan.  lastGen is what    *)
(* generateParametersForStep ended on, kept until its result is consumed.   *)
(* previousResults is the array executeStep was handed with the step.       *)

Init ==
    /\ plan \in Plans
    /\ results = <<>>
    /\ idx = 1
    /\ pc = "loop"
    /\ parameterResult = NoParameterResult
    /\ aiCalls = <<>>
    /\ httpCalls = <<>>
    /\ lastHttp = [kind |-> "none"]
    /\ raised = <<>>
    /\ escaped = FALSE
    /\ lastGen = [stage |-> "none"]
    /\ previousResults = <<>>
    /\ UrlIdle
    /\ OrchIdle
    /\ CacheIdle
    /\ ParseIdle
    /\ RenderIdle
    /\ ConcIdle
    /\ ClassifyIdle
    /\ StreamIdle

\* Record without the break: the loop goes on after a failed step.
RecordNoBreak(result) ==
    /\ results' = Append(results, result)
    /\ pc' = "loop"
    /\ idx' = idx + 1
    /\ escaped' = escaped

\* Record that drops a failed result and goes on with the next step.
RecordDropFailed(result) ==
    /\ results' = IF result.success THEN Append(results, result) ELSE results
    /\ pc' = "loop"
    /\ idx' = idx + 1
    /\ escaped' = escaped

\* Record that takes the step again when its result is a failure.
RecordRetry(result) ==
    /\ results' = IF result.success THEN Append(results, result) ELSE results
    /\ pc' = "loop"
    /\ idx' = IF result.success THEN idx + 1 ELSE idx
    /\ escaped' = escaped

\* results.push(result); if (!result.success) break;
Record(result) ==
    /\ results' = Append(results, result)
    /\ IF result.success
       THEN pc' = "loop" /\ idx' = idx + 1
       ELSE pc' = "done" /\ idx' = idx
    /\ escaped' = escaped

\* The catch block rethrowing instead of recording.
CatchRethrow(step, message) ==
    /\ results' = results
    /\ pc' = "done"
    /\ idx' = idx
    /\ escaped' = TRUE

\* catch (error) { results.push({... UNKNOWN_ERROR ...}); break; }
Catch(step, message) ==
    /\ results' = Append(results, unknownErrorResult(step, message))
    /\ pc' = "done"
    /\ idx' = idx
    /\ escaped' = escaped

\* An exception leaves executeStep and reaches the try block of executePlan.
Throw(step, message) ==
    /\ raised' = Append(raised, [step |-> step.step, message |-> message])
    /\ Catch(step, message)

\* The try/catch of makeHttpRequest around the request: what it returns, or
\* the error it rethrows.
\* makeHttpRequest rethrowing every error, with or without a response.
httpResultOfAlwaysThrow(o) ==
    IF o.kind \in {"noResponse", "errorResponse"}
    THEN [kind |-> "throw", message |-> "Request failed"]
    ELSE [kind |-> "return", response |-> o.data, status |-> o.status]

httpResultOf(o) ==
    IF o.kind = "noResponse"
    THEN [kind |-> "throw", message |-> o.message]
    ELSE [kind |-> "return", response |-> o.data, status |-> o.status]

\* The catch block of generateParametersForStep.
ParameterError(message) ==
    /\ parameterResult' = createParameterError(message)
    /\ pc' = "validate"

\* What generateParametersForStep ended on: the stage and its outcome.
Ended(stage, o) == [stage |-> stage, outcome |-> o]

\* The loop takes step idx: executeStep, generateParametersForStep,
\* getSwaggerSchema up to the schema lookup.
StartStep ==
    /\ pc = "loop"
    /\ idx <= Len(plan)
    /\ previousResults' = results
    /\ LET step == plan[idx] IN
         IF step.swaggerUrl = ""
         THEN /\ ParameterError("No swagger URL found for step " \o ToString(step.step))
              /\ lastGen' = Ended("swagger", [kind |-> "nourl"])
         ELSE pc' = "schema" /\ UNCHANGED <<parameterResult, lastGen>>
    /\ UNCHANGED <<plan, results, idx, aiCalls, httpCalls, lastHttp, raised,
                   escaped>>
    /\ UNCHANGED otherVars

\* The schema lookup returns; with a schema the prompt is built and the
\* backend is called.
SchemaReturn ==
    /\ pc = "schema"
    /\ \E o \in SchemaOutcomes :
         LET step == plan[idx] IN
         CASE o.kind = "schema" ->
                /\ aiCalls' = Append(aiCalls, step.step)
                /\ pc' = "ai"
                /\ UNCHANGED <<parameterResult, lastGen>>
           [] o.kind = "null" ->
                /\ ParameterError("Endpoint " \o step.method \o " "
                                  \o Chars2Str(step.endpoint) \o " not found in Swagger")
                /\ aiCalls' = aiCalls
                /\ lastGen' = Ended("swagger", o)
           [] OTHER ->
                /\ ParameterError(o.message)
                /\ aiCalls' = aiCalls
                /\ lastGen' = Ended("swagger", o)
    /\ UNCHANGED <<previousResults, plan, results, idx, httpCalls, lastHttp, raised, escaped>>
    /\ UNCHANGED otherVars

\* The backend call returns or throws; its content is parsed.
AIReturn ==
    /\ pc = "ai"
    /\ \E o \in BackendOutcomes :
         /\ lastGen' = Ended("backend", o)
         /\ IF o.kind = "throw"
            THEN ParameterError(o.message)
            ELSE LET parsed == parseParameterResponse(o.json) IN
                 IF parsed.kind = "throw"
                 THEN ParameterError(parsed.message)
                 ELSE parameterResult' = parsed.value /\ pc' = "validate"
    /\ UNCHANGED <<previousResults, plan, results, idx, aiCalls, httpCalls, lastHttp, raised,
                   escaped>>
    /\ UNCHANGED otherVars

\* The request handed to httpService.request.
HttpCall(step, pr) ==
    [step |-> step.step, method |-> step.method, endpoint |-> step.endpoint,
     parameters |-> pr.parameters, body |-> pr.body]

\* executeStep after generateParametersForStep: the status check, then
\* makeHttpRequest up to the dispatch of the request.
Validate ==
    /\ pc = "validate"
    /\ LET step == plan[idx]
           validationResult == validateParameterResult(parameterResult, step)
           missingPathParams ==
               validatePathParameters(step.endpoint,
                                      pathParamsOf(parameterResult.parameters))
       IN
         IF validationResult # Null
         THEN /\ Record(validationResult)
              /\ parameterResult' = NoParameterResult
              /\ UNCHANGED <<httpCalls, raised>>
         ELSE IF Len(missingPathParams) > 0
         THEN /\ Throw(step, "Missing required path parameters: "
                             \o Join(missingPathParams, ", "))
              /\ parameterResult' = NoParameterResult
              /\ UNCHANGED httpCalls
         ELSE /\ httpCalls' = Append(httpCalls, HttpCall(step, parameterResult))
              /\ pc' = "http"
              /\ UNCHANGED <<results, idx, parameterResult, raised, escaped>>
    /\ lastGen' = [stage |-> "none"]
    /\ UNCHANGED <<previousResults, plan, aiCalls, lastHttp>>
    /\ UNCHANGED otherVars

\* The HTTP call ends: a response or an error with a response is recorded,
\* an error without a response is rethrown.
HttpReturn ==
    /\ pc = "http"
    /\ \E o \in HttpOutcomes :
         LET step == plan[idx]
             httpResult == httpResultOf(o)
         IN
           /\ lastHttp' = o
           /\ IF httpResult.kind = "throw"
              THEN Throw(step, httpResult.message)
              ELSE /\ Record(buildExecutionResult(step, parameterResult, httpResult))
                   /\ raised' = raised
    /\ parameterResult' = NoParameterResult
    /\ UNCHANGED <<previousResults, plan, aiCalls, httpCalls, lastGen>>
    /\ UNCHANGED otherVars

\* The loop is exhausted: return results.
Return ==
    /\ pc = "loop"
    /\ idx > Len(plan)
    /\ pc' = "done"
    /\ UNCHANGED <<previousResults, plan, results, idx, parameterResult, aiCalls, httpCalls,
                   lastHttp, raised, escaped, lastGen>>
    /\ UNCHANGED otherVars

Next ==
    \/ StartStep
    \/ SchemaReturn
    \/ AIReturn
    \/ Validate
    \/ HttpReturn
    \/ Return

Spec == Init /\ [][Next]_vars

----------------------------------------------------------------------------
(* Properties of executePlan *)

Last(seq) == seq[Len(seq)]

\* The latest result is the result of the latest HTTP call.
LastResultIsOfLastCall ==
    /\ results # <<>>
    /\ httpCalls # <<>>
    /\ Last(httpCalls).step = Last(results).step
    /\ pc # "http"

\* Some placeholder of the template has no path-located parameter of its name.
SomePlaceholderUnresolved(endpoint, parameters) ==
    \E n \in 1..Len(requiredParams(endpoint)) :
        ~(\E k \in 1..Len(parameters) :
              /\ parameters[k].location = "path"
              /\ parameters[k].name = requiredParams(endpoint)[n])

\* The statuses other than SUCCESS: those a step short-circuits on.
ShortCircuitStatuses ==
    (ParameterValidationStatus \ {"SUCCESS"}) \cup {INSUFFICIENT_SCHEMA}

\* C1: the results are a prefix of the plan, in step order: no more results
\* than steps, and the i-th result carries the step number, endpoint and
\* method of the i-th plan step.
C1_ResultsArePrefixOfPlan ==
    /\ Len(results) <= Len(plan)
    /\ \A i \in 1..Len(results) :
          /\ results[i].step = plan[i].step
          /\ results[i].endpoint = plan[i].endpoint
          /\ results[i].method = plan[i].method

\* A 3-step run that has returned 2 results.
C1_Witness == pc = "done" /\ Len(plan) = 3 /\ Len(results) = 2

\* C2: a failed result can only be the last one, and once a result has
\* failed the run is over: no later step has a backend call, an HTTP call
\* or a result.
C2_FailureIsLast ==
    \A i \in 1..Len(results) :
        ~results[i].success =>
            /\ i = Len(results)
            /\ pc = "done"
            /\ \A k \in 1..Len(aiCalls) : aiCalls[k] <= i
            /\ \A k \in 1..Len(httpCalls) : httpCalls[k].step <= i

\* Scenario C: a 3-step plan whose step 2 gets HTTP 500 returns 2 results.
C2_Witness ==
    /\ pc = "done"
    /\ Len(plan) = 3
    /\ Len(results) = 2
    /\ results[1].success
    /\ ~results[2].success
    /\ results[2].responseStatus = 500

\* C3: an HTTP call is in flight only for a parameter generation result of
\* status SUCCESS.
C3_HttpCallOnlyOnSuccessStatus ==
    pc = "http" => parameterResult.status = "SUCCESS"

C5_NoCallWithUnresolvedPlaceholder ==
    /\ \A k \in 1..Len(httpCalls) :
          ~SomePlaceholderUnresolved(httpCalls[k].endpoint, httpCalls[k].parameters)
    /\ (pc = "http" =>
          ~SomePlaceholderUnresolved(plan[idx].endpoint, parameterResult.parameters))

\* A step of template /{a}/{b} generated with a alone has ended, and no HTTP
\* call was made for it.
C5_Witness ==
    /\ pc = "done"
    /\ results # <<>>
    /\ Last(results).error =
          Str("Oshibka vypolneniya: Missing required path parameters: b")
    /\ \A k \in 1..Len(httpCalls) : httpCalls[k].step # Last(results).step

\* C6: a step that reaches the path-parameter check with an unresolved
\* placeholder is recorded with success=false and errorType VALIDATION_ERROR.
C6_MissingPathParameterIsValidationError ==
    [][(/\ pc = "validate"
        /\ parameterResult.status \notin ShortCircuitStatuses
        /\ SomePlaceholderUnresolved(plan[idx].endpoint, parameterResult.parameters)) =>
          /\ Len(results') = Len(results) + 1
          /\ ~Last(results').success
          /\ Last(results').errorType = Str("VALIDATION_ERROR")]_vars

\* C7: every failed result carries an error type of the taxonomy.
C7_FailedResultHasErrorType ==
    \A i \in 1..Len(results) :
        ~results[i].success =>
            /\ results[i].errorType.t = "string"
            /\ results[i].errorType.v \in ExecutionErrorType

\* C8: no exception leaves executePlan; one that leaves executeStep is
\* recorded as a failed result of type UNKNOWN_ERROR for that step, as the
\* last result, and the run is over.
C8_ExceptionBecomesUnknownError ==
    /\ ~escaped
    /\ raised # <<>> =>
          /\ Len(raised) = 1
          /\ pc = "done"
          /\ results # <<>>
          /\ Last(results).step = raised[1].step
          /\ Last(results).step = plan[Len(results)].step
          /\ ~Last(results).success
          /\ Last(results).errorType = Str("UNKNOWN_ERROR")

\* The second step of a run raised an exception.
C8_Witness ==
    /\ pc = "done"
    /\ Len(raised) = 1
    /\ raised[1].step = 2
    /\ Len(results) = 2

\* C9: the result of an HTTP call that ended with a response has
\* success=true exactly when the status is in [200,299], and otherwise its
\* error is "HTTP <status>: <body as JSON>".
C9_SuccessIffStatusInRange ==
    (LastResultIsOfLastCall /\ lastHttp.kind \in {"response", "errorResponse"}) =>
        /\ Last(results).success <=> (200 <= lastHttp.status /\ lastHttp.status <= 299)
        /\ ~Last(results).success =>
              Last(results).error =
                  Str("HTTP " \o ToString(lastHttp.status) \o ": "
                      \o Template(JSONStringify(lastHttp.data)))
        /\ (lastHttp.status = 500 /\ lastHttp.data = Null) =>
              Last(results).error = Str("HTTP 500: null")

\* A call answered with status 299 was recorded as a success.
C9_Witness ==
    /\ LastResultIsOfLastCall
    /\ lastHttp.kind = "response"
    /\ lastHttp.status = 299
    /\ Last(results).success

\* C10: an HTTP call that fails without a response ends the step with a
\* failed result of type UNKNOWN_ERROR; one that fails with a response is
\* recorded with the status and body of that response, its success decided
\* by the status range.
C10_TransportErrorVersusErrorResponse ==
    LastResultIsOfLastCall =>
        /\ lastHttp.kind = "noResponse" =>
              /\ ~Last(results).success
              /\ Last(results).errorType = Str("UNKNOWN_ERROR")
              /\ pc = "done"
        /\ lastHttp.kind = "errorResponse" =>
              /\ Last(results).responseStatus = lastHttp.status
              /\ Last(results).response = lastHttp.data
              /\ Last(results).success <=>
                    (200 <= lastHttp.status /\ lastHttp.status <= 299)

\* A call that failed with a 404 response was recorded with that status.
C10_Witness ==
    /\ LastResultIsOfLastCall
    /\ lastHttp.kind = "errorResponse"
    /\ lastHttp.status = 404
    /\ Last(results).responseStatus = 404
    /\ ~Last(results).success

\* The schema lookup of the step in hand reported that the document has no
\* operation at the step's path and method.
SchemaNotFound ==
    pc = "validate" /\ lastGen.stage = "swagger" /\ lastGen.outcome.kind = "null"

\* C11: a step whose schema lookup reports not-found has had no backend call,
\* gets no HTTP call, and is recorded as a failed result of type
\* SWAGGER_ERROR.
C11_SchemaNotFoundIsSwaggerError ==
    [][SchemaNotFound =>
          /\ \A k \in 1..Len(aiCalls) : aiCalls[k] # plan[idx].step
          /\ httpCalls' = httpCalls
          /\ Len(results') = Len(results) + 1
          /\ Last(results').step = plan[idx].step
          /\ ~Last(results').success
          /\ Last(results').errorType = Str("SWAGGER_ERROR")]_vars

\* The backend returned a content that JSON.parse rejects.
ContentUnparsable ==
    /\ lastGen.stage = "backend"
    /\ lastGen.outcome.kind = "content"
    /\ lastGen.outcome.json.kind = "syntaxError"

\* C12: whatever the backend returns or throws, parameter generation ends
\* with a result and raises nothing; a content that cannot be parsed gives
\* status ERROR with a message that embeds the message of the parse
\* exception, and the step is recorded as failed with that message.
C12_ParseFailureIsErrorStatus ==
    [][/\ pc = "ai" =>
             /\ pc' = "validate"
             /\ parameterResult' # NoParameterResult
             /\ raised' = raised /\ escaped' = escaped /\ results' = results
       /\ (pc = "validate" /\ ContentUnparsable) =>
             /\ parameterResult.status = "ERROR"
             /\ parameterResult.message =
                   Str("Oshibka parsinga otveta II: " \o "Unexpected token in JSON")
             /\ results' = Append(results,
                                  createErrorResult(plan[idx], "PARAMETER_GENERATION_ERROR",
                                                    parameterResult.message))
             /\ ~Last(results').success
             /\ raised' = raised
             /\ httpCalls' = httpCalls
             /\ pc' = "done"]_vars

\* A step whose backend content could not be parsed has been recorded as the
\* failed last result.
C12_Witness ==
    /\ pc = "done"
    /\ results # <<>>
    /\ ~Last(results).success
    /\ Last(results).error =
          Str("Oshibka parsinga otveta II: Unexpected token in JSON")
    /\ Last(results).errorType = Str("PARAMETER_GENERATION_ERROR")
    /\ raised = <<>>

----------------------------------------------------------------------------
(* The URL of a request: makeHttpRequest down to HttpRequestBuilder.        *)
(* Strings the builder searches and splices are sequences of one-character  *)
(* strings; a parameter is [name, value, location] with a one-character     *)
(* name and String(value) as characters.                                    *)

\* Bound: the number of generated parameters of a request.
MaxParams == 2

\* Array.prototype.join for an array of character sequences.
RECURSIVE JoinChars(_, _)
JoinChars(parts, sep) ==
    IF parts = <<>> THEN <<>>
    ELSE IF Len(parts) = 1 THEN parts[1]
    ELSE parts[1] \o sep \o JoinChars(Tail(parts), sep)

\* String.prototype.indexOf: the first position of pat in s, 0 for -1.
IndexOf(s, pat) ==
    LET hits == { i \in 1..(Len(s) - Len(pat) + 1) : SubSeq(s, i, i + Len(pat) - 1) = pat }
    IN IF hits = {} THEN 0 ELSE CHOOSE i \in hits : \A j \in hits : i <= j

\* GetSubstitution for a string pattern: in the replacement text $$ is "$",
\* $& the matched text, $` the text before it and $' the text after it.
RECURSIVE GetSubstitution(_, _, _, _, _)
GetSubstitution(matched, before, after, replacement, i) ==
    IF i > Len(replacement) THEN <<>>
    ELSE IF replacement[i] = "$" /\ i < Len(replacement)
    THEN CASE replacement[i + 1] = "$" ->
                <<"$">> \o GetSubstitution(matched, before, after, replacement, i + 2)
           [] replacement[i + 1] = "&" ->
                matched \o GetSubstitution(matched, before, after, replacement, i + 2)
           [] replacement[i + 1] = "`" ->
                before \o GetSubstitution(matched, before, after, replacement, i + 2)
           [] replacement[i + 1] = "'" ->
                after \o GetSubstitution(matched, before, after, replacement, i + 2)
           [] OTHER ->
                <<"$">> \o GetSubstitution(matched, before, after, replacement, i + 1)
    ELSE <<replacement[i]>> \o GetSubstitution(matched, before, after, replacement, i + 1)

\* String.prototype.replace with a string pattern: the first occurrence only.
replace(s, pat, replacement) ==
    LET i == IndexOf(s, pat) IN
    IF i = 0 THEN s
    ELSE LET before == SubSeq(s, 1, i - 1)
             after == SubSeq(s, i + Len(pat), Len(s))
         IN before \o GetSubstitution(pat, before, after, replacement, 1) \o after

\* encodeURIComponent on the characters of the inputs: letters and digits
\* stay, the reserved characters are percent-encoded.
encodeURIComponent(cs) ==
    LET RECURSIVE Enc(_)
        Enc(i) ==
            IF i > Len(cs) THEN <<>>
            ELSE (CASE cs[i] = "/" -> <<"%", "2", "F">>
                    [] cs[i] = "{" -> <<"%", "7", "B">>
                    [] cs[i] = "}" -> <<"%", "7", "D">>
                    [] cs[i] = "$" -> <<"%", "2", "4">>
                    [] cs[i] = "&" -> <<"%", "2", "6">>
                    [] OTHER -> <<cs[i]>>) \o Enc(i + 1)
    IN Enc(1)

\* parameters.filter(p => p.location === 'query') ... url += `?${queryString}`
queryString(parameters) ==
    LET queryParams == SelectSeq(parameters, LAMBDA p : p.location = "query") IN
    IF Len(queryParams) > 0
    THEN <<"?">> \o JoinChars([k \in 1..Len(queryParams) |->
                                 encodeURIComponent(<<queryParams[k].name>>) \o <<"=">>
                                 \o encodeURIComponent(queryParams[k].value)],
                              <<"&">>)
    ELSE <<>>

\* `{${p.name}}`
placeholder(p) == <<"{", p.name, "}">>

\* One iteration of pathParams.forEach: finalUrl.replace(placeholder, value).
replacePathParam(url, p) == replace(url, placeholder(p), p.value)

\* The path templates of the requests.
Templates ==
    { <<"/", "u">>,
      <<"/", "{", "a", "}">>,
      <<"/", "{", "a", "}", "/", "{", "b", "}">>,
      <<"/", "{", "a", "}", "/", "{", "a", "}">> }

\* String(p.value) of the generated values.
Values == { <<"1">>, <<"$", "&">>, <<"{", "b", "}">> }

ParameterValues ==
    { Param(n, v, l) : n \in {"a", "b"}, v \in Values, l \in {"path", "query", "header"} }

\* The arguments of makeHttpRequest that make the URL.
Requests ==
    { [baseUrl |-> <<"h">>, endpoint |-> e, parameters |-> ps] :
        e \in Templates,
        ps \in UNION { [1..n -> ParameterValues] : n \in 0..MaxParams } }

(* bpc is the position in makeHttpRequest: "validate" before the path        *)
(* parameter check, "query" at the start of buildRequest, "path" in the      *)
(* forEach over the path parameters (pk the next one), "sent" once the       *)
(* request is handed to the HTTP client, "thrown" when the check threw.      *)

UrlInit ==
    /\ request \in Requests
    /\ bpc = "validate"
    /\ finalUrl = <<>>
    /\ pk = 1
    /\ ExecIdle
    /\ OrchIdle
    /\ CacheIdle
    /\ ParseIdle
    /\ RenderIdle
    /\ ConcIdle
    /\ ClassifyIdle
    /\ StreamIdle

\* The path parameter check: throw, or go on to build the request.
UrlValidate ==
    /\ bpc = "validate"
    /\ LET missingPathParams ==
               validatePathParameters(request.endpoint, pathParamsOf(request.parameters))
       IN bpc' = IF Len(missingPathParams) > 0 THEN "thrown" ELSE "query"
    /\ UNCHANGED <<request, finalUrl, pk>>
    /\ UNCHANGED notUrlVars

\* let url = `${this.baseUrl}${this.endpoint}` and the query string.
UrlQuery ==
    /\ bpc = "query"
    /\ finalUrl' = request.baseUrl \o request.endpoint \o queryString(request.parameters)
    /\ bpc' = "path"
    /\ pk' = 1
    /\ UNCHANGED request
    /\ UNCHANGED notUrlVars

\* One iteration of pathParams.forEach.
UrlPath ==
    /\ bpc = "path"
    /\ pk <= Len(pathParamsOf(request.parameters))
    /\ finalUrl' = replacePathParam(finalUrl, pathParamsOf(request.parameters)[pk])
    /\ pk' = pk + 1
    /\ UNCHANGED <<request, bpc>>
    /\ UNCHANGED notUrlVars

\* return { url: finalUrl, headers } and httpService.request({ url, ... }).
UrlSend ==
    /\ bpc = "path"
    /\ pk > Len(pathParamsOf(request.parameters))
    /\ bpc' = "sent"
    /\ UNCHANGED <<request, finalUrl, pk>>
    /\ UNCHANGED notUrlVars

UrlNext ==
    \/ UrlValidate
    \/ UrlQuery
    \/ UrlPath
    \/ UrlSend

SpecUrl == UrlInit /\ [][UrlNext]_vars

----------------------------------------------------------------------------
(* Properties of the request URL *)

\* The value of the first path parameter named name.
ValueOf(name, pathParams) ==
    pathParams[CHOOSE k \in 1..Len(pathParams) :
                   /\ pathParams[k].name = name
                   /\ \A j \in 1..(k - 1) : pathParams[j].name # name].value

\* The template with every placeholder replaced by the value of the path
\* parameter of its name (placeholders read as the path check reads them).
RECURSIVE Substituted(_, _, _)
Substituted(e, i, pathParams) ==
    IF i > Len(e) THEN <<>>
    ELSE IF e[i] # "{" THEN <<e[i]>> \o Substituted(e, i + 1, pathParams)
    ELSE LET j == NextClose(e, i + 1) IN
         IF j = 0 \/ j = i + 1 THEN <<e[i]>> \o Substituted(e, i + 1, pathParams)
         ELSE ValueOf(Chars2Str(SubSeq(e, i + 1, j - 1)), pathParams)
              \o Substituted(e, j + 1, pathParams)

\* C13: the URL of a dispatched request is baseUrl followed by the template
\* with every placeholder replaced by the value of the path parameter of its
\* name (and then the query string, if any).
C13_UrlHasEveryPlaceholderReplaced ==
    bpc = "sent" =>
        finalUrl = request.baseUrl
                   \o Substituted(request.endpoint, 1, pathParamsOf(request.parameters))
                   \o queryString(request.parameters)

----------------------------------------------------------------------------
(* Planning and orchestration: ApiPlannerService.planApiCalls and           *)
(* AgentOrchestratorService.processQuery.  A backend answer is a sequence   *)
(* of one-character strings, so that split, trim and the ordinal pattern    *)
(* are computed.                                                            *)

\* Bound: the number of tokens (ids, lines) of a backend answer.
MaxTokens == 2

\* String.prototype.split with a one-character separator.
split(s, sep) ==
    LET RECURSIVE Go(_, _)
        Go(i, cur) ==
            IF i > Len(s) THEN <<cur>>
            ELSE IF s[i] = sep THEN <<cur>> \o Go(i + 1, <<>>)
            ELSE Go(i + 1, Append(cur, s[i]))
    IN Go(1, <<>>)

WhiteSpace == {" ", "\n", "\t"}

\* The text from its first character that is no white space.
RECURSIVE trimStart(_)
trimStart(cs) ==
    IF cs # <<>> /\ cs[1] \in WhiteSpace THEN trimStart(Tail(cs)) ELSE cs

\* The text up to its last character that is no white space.
RECURSIVE trimEnd(_)
trimEnd(cs) ==
    IF cs # <<>> /\ cs[Len(cs)] \in WhiteSpace
    THEN trimEnd(SubSeq(cs, 1, Len(cs) - 1)) ELSE cs

\* String.prototype.trim
trim(cs) == trimEnd(trimStart(cs))

Digits == {"0", "1", "2", "3", "4", "5", "6", "7", "8", "9"}

\* The number of leading digits.
RECURSIVE LeadingDigits(_)
LeadingDigits(cs) ==
    IF cs # <<>> /\ cs[1] \in Digits THEN 1 + LeadingDigits(Tail(cs)) ELSE 0

\* line.replace(/^\d+\.\s*/, '')
stripOrdinal(line) ==
    LET d == LeadingDigits(line) IN
    IF d >= 1 /\ d < Len(line) /\ line[d + 1] = "."
    THEN trimStart(SubSeq(line, d + 2, Len(line)))
    ELSE line

\* Array.prototype.flatMap
RECURSIVE Flatten(_)
Flatten(seqs) == IF seqs = <<>> THEN <<>> ELSE seqs[1] \o Flatten(Tail(seqs))

\* Array.prototype.includes
Includes(seq, x) == \E k \in 1..Len(seq) : seq[k] = x

\* The registry: APIs with their features and endpoints, ids unique.
Endpoint(id, path, method) == [id |-> id, path |-> path, method |-> method]

Feature(id, endpoints) == [id |-> id, endpoints |-> endpoints]

Api(id, features) == [id |-> id, features |-> features]

Registries ==
    { <<>>,
      << Api("A1", << Feature("F1", << Endpoint("E1", "/u", "GET"),
                                       Endpoint("E2", "/u/{a}", "GET") >>),
                      Feature("F2", << Endpoint("E3", "/o", "POST") >>) >>),
         Api("A2", << Feature("F3", << Endpoint("E4", "/p", "GET") >>) >>) >> }

\* The texts the backend answers with: up to MaxTokens tokens, some of them
\* no id of the registry.
TokenLists(tokens) == UNION { [1..n -> tokens] : n \in 1..MaxTokens }

ApiAnswers ==
    { JoinChars(ts, <<",", " ">>) :
        ts \in TokenLists({ <<"A", "1">>, <<"A", "2">>, <<"A", "9">> }) }

FeatureAnswers ==
    { JoinChars(ts, <<",">>) :
        ts \in TokenLists({ <<"F", "1">>, <<" ", "F", "2">>, <<"F", "3">>, <<"F", "9">> }) }

SequenceAnswers ==
    { JoinChars([k \in 1..Len(ts) |-> <<ToString(k), ".", " ">> \o ts[k]], <<"\n">>) :
        ts \in TokenLists({ <<"E", "1">>, <<"E", "2">>, <<"E", "3">>, <<"E", "4">>,
                            <<"E", "9">>, <<>> }) }

\* openaiService.generateAnswer in a planning stage.
AnswerOutcomes(texts) ==
    { [kind |-> "throw"] } \cup { [kind |-> "content", text |-> t] : t \in texts }

\* response.content.split(',').map(id => id.trim())
selectedIds(text) ==
    LET parts == split(text, ",") IN
    [k \in 1..Len(parts) |-> Chars2Str(trim(parts[k]))]

\* Stage 1 after the backend call.
selectRelevantApis(apisWithFeatures, text) ==
    SelectSeq(apisWithFeatures, LAMBDA api : Includes(selectedIds(text), api.id))

\* apis.flatMap(api => api.features.map(feature => ({...feature, apiId})))
allFeatures(apis) ==
    Flatten([a \in 1..Len(apis) |->
                [f \in 1..Len(apis[a].features) |->
                    [id |-> apis[a].features[f].id,
                     endpoints |-> apis[a].features[f].endpoints,
                     apiId |-> apis[a].id]]])

\* Stage 2 after the backend call.
selectRelevantFeatures(apis, text) ==
    SelectSeq(allFeatures(apis), LAMBDA feature : Includes(selectedIds(text), feature.id))

\* features.flatMap(feature => feature.endpoints.map(...))
allEndpoints(features) ==
    Flatten([f \in 1..Len(features) |-> features[f].endpoints])

\* response.content.split('\n').map(strip the ordinal, trim).filter(id => id)
endpointIds(text) ==
    LET lines == split(text, "\n") IN
    SelectSeq([k \in 1..Len(lines) |-> Chars2Str(trim(stripOrdinal(lines[k])))],
              LAMBDA id : id # "")

\* allEndpoints.find(e => e.id === id): its index, 0 for undefined.
find(endpoints, id) ==
    LET hits == { k \in 1..Len(endpoints) : endpoints[k].id = id }
    IN IF hits = {} THEN 0 ELSE CHOOSE k \in hits : \A j \in hits : k <= j

EndpointPlan(e, step) ==
    [endpointId |-> e.id, path |-> e.path, method |-> e.method, step |-> step]

\* Stage 3 pushing a step for every id of the answer, known or not.
planEndpointSequenceUnchecked(features, text) ==
    [i \in 1..Len(endpointIds(text)) |->
        EndpointPlan(Endpoint(endpointIds(text)[i], "/", "GET"), i)]

\* Stage 3 numbering a step by the place of its endpoint among the
\* candidates.
planEndpointSequenceByCandidate(features, text) ==
    LET ids == endpointIds(text)
        found == SelectSeq([i \in 1..Len(ids) |-> i],
                           LAMBDA i : find(allEndpoints(features), ids[i]) # 0)
    IN [n \in 1..Len(found) |->
           EndpointPlan(allEndpoints(features)[find(allEndpoints(features), ids[found[n]])],
                        find(allEndpoints(features), ids[found[n]]))]

\* Stage 3 after the backend call: the loop over endpointIds; i is the
\* loop's i + 1.
planEndpointSequence(features, text) ==
    LET ids == endpointIds(text)
        found == SelectSeq([i \in 1..Len(ids) |-> i],
                           LAMBDA i : find(allEndpoints(features), ids[i]) # 0)
    IN [n \in 1..Len(found) |->
           EndpointPlan(allEndpoints(features)[find(allEndpoints(features), ids[found[n]])],
                        found[n])]

\* Stage 4: what the backend answers for one endpoint: it throws, or its
\* content parses to parameters, or does not parse.
ParameterOutcomes ==
    { [kind |-> "throw"],
      [kind |-> "json", parameters |-> <<PathA>>],
      [kind |-> "text"] }

\* finalPlan.push({ step: endpoint.step, ... })
ApiCallPlan(endpoint, o) ==
    [step |-> endpoint.step, endpoint |-> endpoint.path, method |-> endpoint.method,
     parameters |-> IF o.kind = "json" THEN o.parameters ELSE <<>>]

\* classifierService.classifyRequest: the commands of the tasks.
TaskLists == { <<"GENERATE">>, <<"HTTP_TOOL", "GENERATE">> }

\* tasks.some(task => task.command === 'HTTP_TOOL')
hasHttpTool(ts) == Includes(ts, "HTTP_TOOL")

\* HttpToolResult
HttpToolResult(apiPlan, res) ==
    [kind |-> "return", apiPlan |-> apiPlan, executionResults |-> res]

\* The catch block of processHttpToolTasks handing on what was planned.
caughtKeepsPlan(planned) == HttpToolResult([t |-> "object", plan |-> planned], Null)

\* The catch block of processHttpToolTasks.
caught(planned) == HttpToolResult(Null, Null)

\* QueryResponse: a field that was not set is undefined.
QueryResponse(ts, apiPlan, res, finalResponse) ==
    [kind |-> "return", tasks |-> ts, apiPlan |-> apiPlan,
     executionResults |-> res, finalResponse |-> finalResponse]

(* opc is the position of processQuery:                                      *)
(*   "classify"    awaiting classifyRequest                                  *)
(*   "apis", "features", "sequence"  awaiting the backend in stage 1, 2, 3   *)
(*   "parameters"  in the loop of stage 4                                    *)
(*   "execute"     in the loop of executePlan                                *)
(*   "respond"     processClassification has its result                      *)
(*   "done"        processQuery has returned queryResponse                   *)
(*   "rejected"    processQuery has thrown                                   *)
(* content is the latest answer of the backend in stages 1 to 3, or the     *)
(* throw that ended planning; planError is the stage in which planApiCalls  *)
(* threw, "" when it has not; executed says that executePlan was invoked.   *)

OrchInit ==
    /\ registry \in Registries
    /\ tasks = <<>>
    /\ opc = "classify"
    /\ content = [kind |-> "none"]
    /\ relevantApis = <<>> /\ relevantFeatures = <<>>
    /\ endpointSequence = <<>> /\ finalPlan = <<>>
    /\ planError = ""
    /\ httpToolResult = [kind |-> "none"]
    /\ executionResults = Null /\ executed = FALSE
    /\ queryResponse = [kind |-> "none"]
    /\ ExecIdle
    /\ UrlIdle
    /\ CacheIdle
    /\ ParseIdle
    /\ RenderIdle
    /\ ConcIdle
    /\ ClassifyIdle
    /\ StreamIdle

\* A backend call of planning throws: planApiCalls rethrows and
\* processHttpToolTasks catches.
PlanFails ==
    /\ content' = [kind |-> "throw"]
    /\ planError' = opc
    /\ httpToolResult' = caught(finalPlan)
    /\ opc' = "respond"

\* classifyRequest returns; processClassification looks for HTTP_TOOL.
ClassifyReturn ==
    /\ opc = "classify"
    /\ \E ts \in TaskLists :
         /\ tasks' = ts
         /\ opc' = IF hasHttpTool(ts) THEN "apis" ELSE "respond"
    /\ UNCHANGED <<registry, content, relevantApis, relevantFeatures,
                   endpointSequence, finalPlan, planError, httpToolResult,
                   executionResults, executed, queryResponse>>
    /\ UNCHANGED notOrchVars

\* selectRelevantApis after its backend call.
ApisReturn ==
    /\ opc = "apis"
    /\ \E o \in AnswerOutcomes(ApiAnswers) :
         IF o.kind = "throw"
         THEN PlanFails /\ UNCHANGED relevantApis
         ELSE /\ content' = o
              /\ relevantApis' = selectRelevantApis(registry, o.text)
              /\ opc' = "features"
              /\ UNCHANGED <<planError, httpToolResult>>
    /\ UNCHANGED <<registry, tasks, relevantFeatures, endpointSequence, finalPlan,
                   executionResults, executed, queryResponse>>
    /\ UNCHANGED notOrchVars

\* selectRelevantFeatures after its backend call.
FeaturesReturn ==
    /\ opc = "features"
    /\ \E o \in AnswerOutcomes(FeatureAnswers) :
         IF o.kind = "throw"
         THEN PlanFails /\ UNCHANGED relevantFeatures
         ELSE /\ content' = o
              /\ relevantFeatures' = selectRelevantFeatures(relevantApis, o.text)
              /\ opc' = "sequence"
              /\ UNCHANGED <<planError, httpToolResult>>
    /\ UNCHANGED <<registry, tasks, relevantApis, endpointSequence, finalPlan,
                   executionResults, executed, queryResponse>>
    /\ UNCHANGED notOrchVars

\* planEndpointSequence after its backend call.
SequenceReturn ==
    /\ opc = "sequence"
    /\ \E o \in AnswerOutcomes(SequenceAnswers) :
         IF o.kind = "throw"
         THEN PlanFails /\ UNCHANGED endpointSequence
         ELSE /\ content' = o
              /\ endpointSequence' = planEndpointSequence(relevantFeatures, o.text)
              /\ opc' = "parameters"
              /\ UNCHANGED <<planError, httpToolResult>>
    /\ UNCHANGED <<registry, tasks, relevantApis, relevantFeatures, finalPlan,
                   executionResults, executed, queryResponse>>
    /\ UNCHANGED notOrchVars

\* extractParameters: one iteration of its loop, after the backend call.
ParametersReturn ==
    /\ opc = "parameters"
    /\ Len(finalPlan) < Len(endpointSequence)
    /\ \E o \in ParameterOutcomes :
         IF o.kind = "throw"
         THEN PlanFails /\ UNCHANGED finalPlan
         ELSE /\ finalPlan' =
                    Append(finalPlan, ApiCallPlan(endpointSequence[Len(finalPlan) + 1], o))
              /\ UNCHANGED <<content, planError, httpToolResult, opc>>
    /\ UNCHANGED <<registry, tasks, relevantApis, relevantFeatures, endpointSequence,
                   executionResults, executed, queryResponse>>
    /\ UNCHANGED notOrchVars

\* processHttpToolTasks invoking executePlan for every plan, empty or not.
PlanReturnAlwaysExecutes ==
    /\ opc = "parameters"
    /\ Len(finalPlan) = Len(endpointSequence)
    /\ executed' = TRUE
    /\ executionResults' = Arr(<<>>)
    /\ opc' = IF Len(finalPlan) > 0 THEN "execute" ELSE "respond"
    /\ httpToolResult' = IF Len(finalPlan) > 0 THEN httpToolResult
                         ELSE HttpToolResult([t |-> "object", plan |-> finalPlan], Arr(<<>>))
    /\ UNCHANGED <<registry, tasks, content, relevantApis, relevantFeatures,
                   endpointSequence, finalPlan, planError, queryResponse>>
    /\ UNCHANGED notOrchVars

\* planApiCalls returns { plan: finalPlan }; processHttpToolTasks invokes
\* executePlan for a plan that is not empty.
PlanReturn ==
    /\ opc = "parameters"
    /\ Len(finalPlan) = Len(endpointSequence)
    /\ IF Len(finalPlan) > 0
       THEN /\ executed' = TRUE
            /\ executionResults' = Arr(<<>>)
            /\ opc' = "execute"
            /\ UNCHANGED httpToolResult
       ELSE /\ httpToolResult' = HttpToolResult([t |-> "object", plan |-> finalPlan], Null)
            /\ opc' = "respond"
            /\ UNCHANGED <<executed, executionResults>>
    /\ UNCHANGED <<registry, tasks, content, relevantApis, relevantFeatures,
                   endpointSequence, finalPlan, planError, queryResponse>>
    /\ UNCHANGED notOrchVars

\* executePlan: one iteration of its loop, the step succeeding or failing.
ExecuteStep ==
    /\ opc = "execute"
    /\ Len(executionResults.items) < Len(finalPlan)
    /\ IF executionResults.items = <<>> THEN TRUE
       ELSE executionResults.items[Len(executionResults.items)].success
    /\ \E ok \in BOOLEAN :
         executionResults' =
             Arr(Append(executionResults.items,
                        [step |-> finalPlan[Len(executionResults.items) + 1].step,
                         success |-> ok]))
    /\ UNCHANGED <<registry, tasks, opc, content, relevantApis, relevantFeatures,
                   endpointSequence, finalPlan, planError, httpToolResult, executed,
                   queryResponse>>
    /\ UNCHANGED notOrchVars

\* executePlan returns; processHttpToolTasks returns.
ExecuteReturn ==
    /\ opc = "execute"
    /\ IF executionResults.items = <<>> THEN FALSE
       ELSE \/ Len(executionResults.items) = Len(finalPlan)
            \/ ~executionResults.items[Len(executionResults.items)].success
    /\ httpToolResult' = HttpToolResult([t |-> "object", plan |-> finalPlan],
                                        executionResults)
    /\ opc' = "respond"
    /\ UNCHANGED <<registry, tasks, content, relevantApis, relevantFeatures,
                   endpointSequence, finalPlan, planError, executionResults, executed,
                   queryResponse>>
    /\ UNCHANGED notOrchVars

\* buildResponse: apiPlan and executionResults are set when truthy; the
\* final response is formatted by a backend call, which may throw.
BuildResponse ==
    /\ opc = "respond"
    /\ LET result == IF httpToolResult.kind = "none"
                     THEN HttpToolResult(Null, Null) ELSE httpToolResult
           apiPlan == IF result.apiPlan.t = "object" THEN result.apiPlan ELSE Undefined
       IN IF result.executionResults.t = "array"
          THEN \E o \in {"throw", "content"} :
                 IF o = "throw"
                 THEN queryResponse' = [kind |-> "throw"] /\ opc' = "rejected"
                 ELSE /\ queryResponse' =
                            QueryResponse(tasks, apiPlan, result.executionResults,
                                          Str("final"))
                      /\ opc' = "done"
          ELSE /\ queryResponse' = QueryResponse(tasks, apiPlan, Undefined, Undefined)
               /\ opc' = "done"
    /\ UNCHANGED <<registry, tasks, content, relevantApis, relevantFeatures,
                   endpointSequence, finalPlan, planError, httpToolResult,
                   executionResults, executed>>
    /\ UNCHANGED notOrchVars

OrchNext ==
    \/ ClassifyReturn
    \/ ApisReturn
    \/ FeaturesReturn
    \/ SequenceReturn
    \/ ParametersReturn
    \/ PlanReturn
    \/ ExecuteStep
    \/ ExecuteReturn
    \/ BuildResponse

SpecOrch == OrchInit /\ [][OrchNext]_vars

----------------------------------------------------------------------------
(* Properties of planning and orchestration *)

\* The ids of the answer that are ids of candidate endpoints, in the order
\* of the answer.
KnownIds(features, text) ==
    SelectSeq(endpointIds(text), LAMBDA id : find(allEndpoints(features), id) # 0)

\* C14: no stage expands its candidate set: the selected APIs are registered
\* APIs, the selected features are features of selected APIs, the endpoints
\* of the sequence and of the plan are endpoints of selected features; and
\* planning fails only when a backend call throws, never on an id that is
\* no candidate.
C14_StagesNeverExpandCandidates ==
    /\ \A k \in 1..Len(relevantApis) : Includes(registry, relevantApis[k])
    /\ \A k \in 1..Len(relevantFeatures) :
          \E a \in 1..Len(relevantApis) :
              /\ relevantApis[a].id = relevantFeatures[k].apiId
              /\ \E f \in 1..Len(relevantApis[a].features) :
                    relevantApis[a].features[f].id = relevantFeatures[k].id
    /\ \A k \in 1..Len(endpointSequence) :
          find(allEndpoints(relevantFeatures), endpointSequence[k].endpointId) # 0
    /\ \A k \in 1..Len(finalPlan) :
          \E e \in 1..Len(allEndpoints(relevantFeatures)) :
              /\ allEndpoints(relevantFeatures)[e].path = finalPlan[k].endpoint
              /\ allEndpoints(relevantFeatures)[e].method = finalPlan[k].method
    /\ planError # "" => content.kind = "throw"

\* Stage 3 answered with E9, which is no endpoint, and with a candidate:
\* the stage returned the candidate alone.
C14_Witness ==
    /\ opc = "parameters"
    /\ content.kind = "content"
    /\ Includes(endpointIds(content.text), "E9")
    /\ Len(endpointSequence) = 1
    /\ planError = ""

\* C15: the N steps of the sequence and of the plan are numbered 1..N, in
\* the order their ids have in the stage-3 answer, also when tokens of the
\* answer were dropped.
C15_StepsNumberedOneToN ==
    /\ \A n \in 1..Len(endpointSequence) : endpointSequence[n].step = n
    /\ \A n \in 1..Len(finalPlan) : finalPlan[n].step = n
    /\ (opc = "parameters" /\ content.kind = "content") =>
          [n \in 1..Len(endpointSequence) |-> endpointSequence[n].endpointId]
              = KnownIds(relevantFeatures, content.text)

\* C16: the step numbers of a plan are at least 1 and strictly increasing
\* along the plan, and executePlan attempts the steps in the order of the
\* list: its i-th result is of the i-th step of the plan.
C16_StepsIncreaseAndRunInListOrder ==
    /\ \A n \in 1..Len(endpointSequence) : endpointSequence[n].step >= 1
    /\ \A m, n \in 1..Len(endpointSequence) :
          m < n => endpointSequence[m].step < endpointSequence[n].step
    /\ \A n \in 1..Len(finalPlan) : finalPlan[n].step = endpointSequence[n].step
    /\ executionResults.t = "array" =>
          /\ Len(executionResults.items) <= Len(finalPlan)
          /\ \A i \in 1..Len(executionResults.items) :
                executionResults.items[i].step = finalPlan[i].step

\* A plan of two steps was executed to its end.
C16_Witness ==
    /\ opc = "done"
    /\ Len(finalPlan) = 2
    /\ executionResults.t = "array"
    /\ Len(executionResults.items) = 2

\* The response that carries the task list alone.
TasksOnly == QueryResponse(tasks, Undefined, Undefined, Undefined)

\* C17: a backend call that throws in a planning stage makes planApiCalls
\* fail; then executePlan is not invoked, processQuery does not throw, and
\* the response it returns has the task list, no apiPlan and no
\* executionResults.
C17_PlanFailureGivesTasksOnly ==
    /\ content.kind = "throw" <=> planError # ""
    /\ planError # "" =>
          /\ ~executed
          /\ executionResults = Null
          /\ opc \in {"respond", "done"}
          /\ httpToolResult = HttpToolResult(Null, Null)
          /\ opc = "done" => queryResponse = TasksOnly

\* Stage 4 threw after a step was planned, and the query was answered.
C17_Witness ==
    /\ planError = "parameters"
    /\ finalPlan # <<>>
    /\ opc = "done"
    /\ queryResponse = TasksOnly

\* Stage 1 has returned.
ApisSelected == hasHttpTool(tasks) /\ opc \notin {"classify", "apis"} /\ planError # "apis"

\* Stage 2 has returned.
FeaturesSelected == ApisSelected /\ opc # "features" /\ planError # "features"

\* A selection stage has returned nothing.
EmptySelection ==
    \/ ApisSelected /\ relevantApis = <<>>
    \/ FeaturesSelected /\ relevantFeatures = <<>>

\* C18 as stated: after a selection stage that yields nothing, planning ends
\* with an empty plan and no error, executePlan is not invoked and the
\* response has no executionResults.
C18_EmptySelectionEndsPlanning ==
    EmptySelection =>
        /\ planError = ""
        /\ finalPlan = <<>>
        /\ ~executed
        /\ opc # "rejected"
        /\ opc = "done" => queryResponse.executionResults = Undefined

\* C18 as amended: after a selection stage that yields nothing the later
\* stages still call the backend; when none of these calls throws, planning
\* ends with the empty plan, which the response carries as its apiPlan, and
\* when one throws planning fails in stage 2 or 3; either way no step is
\* planned, executePlan is not invoked, processQuery does not throw and the
\* response has no executionResults.
C18_EmptySelectionNeverExecutes ==
    EmptySelection =>
        /\ planError \in {"", "features", "sequence"}
        /\ endpointSequence = <<>>
        /\ finalPlan = <<>>
        /\ ~executed
        /\ executionResults = Null
        /\ opc # "rejected"
        /\ (planError = "" /\ opc \in {"respond", "done"}) =>
              httpToolResult = HttpToolResult([t |-> "object", plan |-> <<>>], Null)
        /\ opc = "done" =>
              /\ queryResponse.executionResults = Undefined
              /\ queryResponse.finalResponse = Undefined
              /\ planError = "" =>
                    queryResponse.apiPlan = [t |-> "object", plan |-> <<>>]

\* Stage 1 selected nothing out of a registry that has APIs, no backend call
\* threw, and the query was answered.
C18_Witness ==
    /\ EmptySelection
    /\ registry # <<>>
    /\ relevantApis = <<>>
    /\ planError = ""
    /\ opc = "done"

----------------------------------------------------------------------------
(* The schema resolver: SwaggerService.fetchSwaggerJson with its cache and  *)
(* getEndpointSchema.  One resolution is in progress at a time.  The        *)
(* document a location serves may change between two fetches.               *)

\* A Map without the key.
None == [t |-> "absent"]

\* The locations of the interface documents.
Urls == {"http://a/doc", "http://b/doc"}

\* "#/components/schemas/"
ComponentsSchemas ==
    <<"#", "/", "c", "o", "m", "p", "o", "n", "e", "n", "t", "s", "/",
      "s", "c", "h", "e", "m", "a", "s", "/">>

\* An operation of a document: its path, its method in lower case, its
\* parameters and the $ref of the schema of its JSON request body
\* (<<>> when the operation has no request body).
Operation(path, method, parameters, ref) ==
    [path |-> path, method |-> method, parameters |-> parameters, ref |-> ref]

\* An interface document: the operations of paths and components.schemas.
Document(operations, schemas) ==
    [t |-> "object", operations |-> operations, schemas |-> schemas]

\* The documents a location can serve; the last one is the JSON value null.
Documents ==
    { Document({ Operation("/u", "get", <<QueryA>>, <<>>),
                 Operation("/o", "post", <<>>, ComponentsSchemas \o <<"D">>) },
               { [name |-> "D", schema |-> Obj("{\"properties\":{\"k\":{\"type\":\"string\"}}}")] }),
      Document({ Operation("/o", "post", <<>>, ComponentsSchemas \o <<"D">>) },
               { [name |-> "D", schema |-> Obj("{\"properties\":{\"n\":{\"type\":\"number\"}}}")] }),
      Document({ Operation("/u", "get", <<>>, <<>>),
                 Operation("/o", "post", <<>>, <<"#", "/", "d", "/", "D">>) },
               {}),
      Null }

\* The arguments of getEndpointSchema.
Keys ==
    { [url |-> u, path |-> o[1], method |-> o[2]] :
        u \in Urls, o \in { <<"/u", "GET">>, <<"/o", "POST">> } }

\* String.prototype.toLowerCase on the method names.
toLowerCase(method) ==
    CASE method = "GET" -> "get"
      [] method = "POST" -> "post"
      [] OTHER -> method

\* { $ref: ref }
Ref(ref) == [t |-> "ref", v |-> Chars2Str(ref)]

\* resolveSchemaRef: the schema of #/components/schemas/<name>, or the
\* reference as it was.
resolveSchemaRef(ref, swaggerJson) ==
    LET path == split(replace(ref, <<"#", "/">>, <<>>), "/") IN
    IF Len(path) < 2 THEN Ref(ref)
    ELSE IF /\ Chars2Str(path[1]) = "components"
            /\ Chars2Str(path[2]) = "schemas"
            /\ Len(path) >= 3
            /\ path[3] # <<>>
    THEN LET named == { s \in swaggerJson.schemas : s.name = Chars2Str(path[3]) } IN
         IF named # {} THEN (CHOOSE s \in named : TRUE).schema ELSE Ref(ref)
    ELSE Ref(ref)

\* getEndpointSchema after fetchSwaggerJson: the schema of the operation,
\* null when the document has none at the path and method, or the TypeError
\* of reading paths of null.
getEndpointSchema(swaggerJson, endpointPath, method) ==
    IF swaggerJson = Null
    THEN [kind |-> "throw", message |-> "Cannot read properties of null (reading 'paths')"]
    ELSE LET found == { o \in swaggerJson.operations :
                          o.path = endpointPath /\ o.method = toLowerCase(method) }
         IN IF found = {} THEN [kind |-> "return", value |-> Null]
            ELSE LET operation == CHOOSE o \in found : TRUE IN
                 [kind |-> "return",
                  value |-> [t |-> "object",
                             parameters |-> operation.parameters,
                             requestBody |->
                                 IF operation.ref = <<>> THEN Undefined
                                 ELSE resolveSchemaRef(operation.ref, swaggerJson),
                             swaggerJson |-> swaggerJson]]

\* swaggerCache.has(url) that never finds an entry.
hasNever(cache, url) == FALSE

\* swaggerCache.has(url)
has(cache, url) == cache[url] # None

\* swaggerCache.set(url, data) that stores nothing.
setNothing(cache, url, data) == cache

\* swaggerCache.set that stores under one key whatever the location is.
setUnderOneKey(cache, url, data) == [cache EXCEPT !["http://a/doc"] = data]

\* swaggerCache.set(url, data)
set(cache, url, data) == [cache EXCEPT ![url] = data]

(* swaggerCache maps a location to its cached document, None without an     *)
(* entry; server is the document each location serves now; cpc is "idle"    *)
(* or "fetching" (awaiting httpService.get); call is the resolution in      *)
(* progress or the latest one, returned what it gave; fetched is the set of *)
(* locations fetched successfully so far, resolved the values returned so   *)
(* far for each key.                                                        *)

CacheInit ==
    /\ swaggerCache = [u \in Urls |-> None]
    /\ server \in [Urls -> Documents]
    /\ cpc = "idle"
    /\ call = [url |-> "", path |-> "", method |-> ""]
    /\ returned = [kind |-> "none"]
    /\ fetched = {}
    /\ resolved = [k \in Keys |-> {}]
    /\ ExecIdle
    /\ UrlIdle
    /\ OrchIdle
    /\ ParseIdle
    /\ RenderIdle
    /\ ConcIdle
    /\ ClassifyIdle
    /\ StreamIdle

\* getEndpointSchema goes on with the document fetchSwaggerJson returned.
Resolve(key, swaggerJson, hit) ==
    LET r == getEndpointSchema(swaggerJson, key.path, key.method) IN
    /\ returned' = [kind |-> r.kind, doc |-> swaggerJson, hit |-> hit,
                    value |-> IF r.kind = "return" THEN r.value ELSE Null]
    /\ resolved' = IF r.kind = "return"
                   THEN [resolved EXCEPT ![key] = @ \cup {r.value}]
                   ELSE resolved
    /\ cpc' = "idle"

\* getEndpointSchema is called: fetchSwaggerJson returns the cached document
\* or starts the fetch.
CacheCall ==
    /\ cpc = "idle"
    /\ \E key \in Keys :
         /\ call' = key
         /\ IF has(swaggerCache, key.url)
            THEN Resolve(key, swaggerCache[key.url], TRUE)
            ELSE /\ cpc' = "fetching"
                 /\ returned' = [kind |-> "none"]
                 /\ UNCHANGED resolved
    /\ UNCHANGED <<swaggerCache, server, fetched>>
    /\ UNCHANGED notCacheVars

\* The fetch ends: the document is cached and returned, or
\* fetchSwaggerJson throws.
FetchReturn ==
    /\ cpc = "fetching"
    /\ \E ok \in BOOLEAN :
         IF ok
         THEN /\ swaggerCache' = set(swaggerCache, call.url, server[call.url])
              /\ fetched' = fetched \cup {call.url}
              /\ Resolve(call, server[call.url], FALSE)
         ELSE /\ returned' = [kind |-> "throw", doc |-> Null, hit |-> FALSE,
                              value |-> Null]
              /\ cpc' = "idle"
              /\ UNCHANGED <<swaggerCache, fetched, resolved>>
    /\ UNCHANGED <<server, call>>
    /\ UNCHANGED notCacheVars

\* The document of a location is replaced on its server.
ServerChange ==
    /\ \E u \in Urls : \E d \in Documents \ {server[u]} :
         server' = [server EXCEPT ![u] = d]
    /\ UNCHANGED <<swaggerCache, cpc, call, returned, fetched, resolved>>
    /\ UNCHANGED notCacheVars

CacheNext ==
    \/ CacheCall
    \/ FetchReturn
    \/ ServerChange

SpecCache == CacheInit /\ [][CacheNext]_vars

----------------------------------------------------------------------------
(* Properties of the schema resolver *)

\* A resolution starts in this step.
CallStarts ==
    cpc = "idle" /\ (cpc' = "fetching" \/ returned' # returned \/ call' # call)

\* C19: once the document of a location has been fetched successfully, the
\* location keeps a cache entry, and every resolution that starts later for
\* that location gets the cached document without a fetch.
C19_CachedDocumentIsReused ==
    [][\A u \in Urls :
          u \in fetched =>
             /\ swaggerCache[u] # None
             /\ swaggerCache'[u] # None
             /\ (CallStarts /\ call'.url = u) =>
                   /\ cpc' = "idle"
                   /\ returned'.hit
                   /\ returned'.doc = swaggerCache[u]
                   /\ fetched' = fetched]_vars

\* A resolution got the cached document of a location whose server now
\* serves another one.
C19_Witness ==
    /\ cpc = "idle"
    /\ returned.kind = "return"
    /\ returned.hit
    /\ call.url \in fetched
    /\ returned.doc = swaggerCache[call.url]
    /\ server[call.url] # swaggerCache[call.url]

----------------------------------------------------------------------------
(* Properties of executeStep within executePlan *)

\* C22: a step goes through parameter generation, validation, dispatch and
\* recording in this order; the status check and the path-parameter check
\* precede the HTTP dispatch; every attempted step gets exactly one result;
\* and a phase that does not end in success ends the step: a parameter
\* result whose status is not SUCCESS, or a missing path parameter, leads to
\* the step's failed result without a dispatch, and a failed result ends the
\* run.
C22_StepPhasesInOrder ==
    [][/\ (pc' # pc =>
             <<pc, pc'>> \in {<<"loop", "schema">>, <<"loop", "validate">>, <<"loop", "done">>,
                              <<"schema", "ai">>, <<"schema", "validate">>,
                              <<"ai", "validate">>,
                              <<"validate", "http">>, <<"validate", "loop">>,
                              <<"validate", "done">>,
                              <<"http", "loop">>, <<"http", "done">>})
       /\ (httpCalls' # httpCalls =>
             /\ pc = "validate" /\ pc' = "http"
             /\ httpCalls' = Append(httpCalls, HttpCall(plan[idx], parameterResult))
             /\ validateParameterResult(parameterResult, plan[idx]) = Null
             /\ validatePathParameters(plan[idx].endpoint,
                                       pathParamsOf(parameterResult.parameters)) = <<>>)
       /\ Len(results') = IF pc' = "done" /\ idx' <= Len(plan) THEN idx' ELSE idx' - 1
       /\ (results' # results =>
             /\ pc \in {"validate", "http"}
             /\ Len(results') = Len(results) + 1
             /\ Last(results').step = plan[idx].step
             /\ (~Last(results').success => pc' = "done"))
       /\ ((/\ pc = "validate"
            /\ \/ parameterResult.status # "SUCCESS"
               \/ validatePathParameters(plan[idx].endpoint,
                                         pathParamsOf(parameterResult.parameters)) # <<>>) =>
             /\ httpCalls' = httpCalls
             /\ Len(results') = Len(results) + 1
             /\ ~Last(results').success
             /\ pc' = "done")]_vars

\* C23: the steps of a run execute one after the other.  While step k is
\* between the start of its parameter generation and its recording, the
\* results it was handed are the recorded results of the steps 1..k-1, in
\* the order of the plan and all with success = true; and a backend call or
\* an HTTP call begins only when the results of all earlier steps are
\* recorded, for the step the loop is at.
C23_StepsRunSequentially ==
    [][/\ (pc' \in {"schema", "ai", "validate", "http"} =>
             /\ previousResults' = results'
             /\ Len(previousResults') = idx' - 1
             /\ \A i \in 1..Len(previousResults') :
                   /\ previousResults'[i].success
                   /\ previousResults'[i].step = plan[i].step)
       /\ (aiCalls' # aiCalls =>
             /\ Len(results) = idx - 1
             /\ aiCalls' = Append(aiCalls, plan[idx].step))
       /\ (httpCalls' # httpCalls =>
             /\ Len(results) = idx - 1
             /\ Len(httpCalls') = Len(httpCalls) + 1
             /\ Last(httpCalls').step = plan[idx].step)]_vars

\* The backend is called for the third step, which was handed two results.
C23_Witness ==
    /\ pc = "ai"
    /\ idx = 3
    /\ Len(previousResults) = 2
    /\ aiCalls = <<1, 2, 3>>
    /\ Len(httpCalls) = 2

\* The call that ended in this step failed: the backend call threw, or the
\* HTTP call got no response or a status outside the success range.
BackendCallFailed == pc = "ai" /\ lastGen'.outcome.kind = "throw"

HttpCallFailed ==
    /\ pc = "http"
    /\ IF lastHttp'.kind = "noResponse" THEN TRUE ELSE ~isSuccess(lastHttp'.status)

\* The step the loop is at gets a failed result in this step and the run
\* ends without another call.
StepFailsAndRunEnds ==
    /\ Len(results') = Len(results) + 1
    /\ SubSeq(results', 1, Len(results)) = results
    /\ Last(results').step = plan[idx].step
    /\ ~Last(results').success
    /\ pc' = "done"
    /\ aiCalls' = aiCalls
    /\ httpCalls' = httpCalls

\* C26: no step has more than one backend call or more than one HTTP call,
\* and a call that fails is not repeated: the failure of the backend call
\* becomes the step's ERROR parameter result, which is recorded as the
\* failed result of the step, the failure of the HTTP call is recorded as
\* the failed result of the step, and the run ends there.
C26_NoCallIsRetried ==
    [][/\ \A i, j \in 1..Len(aiCalls') : i < j => aiCalls'[i] < aiCalls'[j]
       /\ \A i, j \in 1..Len(httpCalls') : i < j => httpCalls'[i].step < httpCalls'[j].step
       /\ (BackendCallFailed =>
             /\ pc' = "validate"
             /\ parameterResult'.status = "ERROR"
             /\ aiCalls' = aiCalls)
       /\ ((pc = "validate" /\ lastGen.stage = "backend" /\ lastGen.outcome.kind = "throw") =>
             StepFailsAndRunEnds)
       /\ (HttpCallFailed => StepFailsAndRunEnds)
       /\ (pc = "done" => aiCalls' = aiCalls /\ httpCalls' = httpCalls)]_vars

\* A run of three steps made three backend calls and three HTTP calls; the
\* third HTTP call got no response and the run ended with the failed result
\* of the third step.
C26_Witness ==
    /\ pc = "done"
    /\ aiCalls = <<1, 2, 3>>
    /\ Len(httpCalls) = 3
    /\ lastHttp.kind = "noResponse"
    /\ Len(results) = 3
    /\ ~results[3].success

----------------------------------------------------------------------------
(* Progress of a plan run.  The steps the service takes by itself happen,   *)
(* and so does the end of the schema lookup, whose request is sent with     *)
(* timeout: 10000.  The backend call is sent through a client built with    *)
(* the library's defaults and is taken to end.  The request to the target   *)
(* API is sent with method, url, headers and data and no timeout: nothing   *)
(* in the program ends it when the API does not answer, so its end is left  *)
(* to the API.                                                              *)

SpecLive ==
    /\ Spec
    /\ WF_vars(StartStep)
    /\ WF_vars(SchemaReturn)
    /\ WF_vars(AIReturn)
    /\ WF_vars(Validate)
    /\ WF_vars(Return)

\* C27: every plan run returns in the end, also when a callee does not
\* answer: the call that is under way ends and executePlan returns.
C27_RunEventuallyReturns == <>(pc = "done")

----------------------------------------------------------------------------
(* The text of a generated answer: extractJsonFromResponse and JSON.parse   *)
(* in parseParameterResponse.  A response is a sequence of one-character    *)
(* strings; it is parsed once as the payload in a fenced code block and     *)
(* once as the payload alone.                                               *)

\* The three backticks that open and close a code block (the module
\* language has no literal for the backtick character).
Fence == <<"backtick", "backtick", "backtick">>

\* response.match(/FENCE(?:json)?\s*([\s\S]*?)\s*FENCE/): the first group of
\* the leftmost match, the response itself without a match.
extractJsonFromResponse(response) ==
    LET RECURSIVE SkipWhiteSpace(_, _)
        SkipWhiteSpace(s, i) ==
            IF i <= Len(s) /\ s[i] \in WhiteSpace THEN SkipWhiteSpace(s, i + 1) ELSE i
        open == IndexOf(response, Fence)
    IN IF open = 0 THEN response
       ELSE LET afterFence == open + 3
                afterTag == IF /\ afterFence + 3 <= Len(response)
                               /\ SubSeq(response, afterFence, afterFence + 3)
                                      = <<"j", "s", "o", "n">>
                            THEN afterFence + 4 ELSE afterFence
                start == SkipWhiteSpace(response, afterTag)
                close == IndexOf(SubSeq(response, start, Len(response)), Fence)
            IN IF close = 0 THEN response
               ELSE trimEnd(SubSeq(response, start, start + close - 2))

\* The JSON payloads of the answers: {}, null, {"status":"ERROR"} and
\* {"body":"FENCE"}, a body whose text is three backticks.
Payloads ==
    [emptyObject |-> <<"{", "}">>,
     null |-> <<"n", "u", "l", "l">>,
     status |-> <<"{", "\"", "s", "t", "a", "t", "u", "s", "\"", ":",
                  "\"", "E", "R", "R", "O", "R", "\"", "}">>,
     backticks |-> <<"{", "\"", "b", "o", "d", "y", "\"", ":", "\"">> \o Fence \o <<"\"", "}">>]

\* JSON.parse on the texts of the model: a payload between white space
\* parses to its value, any other text is a syntax error.
JSONParse(text) ==
    LET t == trim(text) IN
    CASE t = Payloads.emptyObject ->
            ParsedObject(Undefined, Undefined, NoArr("undefined"), Undefined)
      [] t = Payloads.null -> [kind |-> "null"]
      [] t = Payloads.status ->
            ParsedObject(Str("ERROR"), Undefined, NoArr("undefined"), Undefined)
      [] t = Payloads.backticks ->
            ParsedObject(Undefined, Undefined, NoArr("undefined"), Str("three backticks"))
      [] OTHER -> [kind |-> "syntaxError"]

\* The two responses that carry a payload: in a fenced code block, with or
\* without the json tag and prose before it, and without a wrapper; white
\* space may surround the payload.
Responses(payload) ==
    LET Spacing == { <<>>, <<"\n">>, <<" ", "\n">> }
        Prose == { <<>>, <<"O", "K", ":", "\n">> }
        Tag == { <<>>, <<"j", "s", "o", "n">> }
    IN [payload : {payload},
        fenced : { prose \o Fence \o tag \o before \o payload \o after \o Fence :
                     prose \in Prose, tag \in Tag, before \in Spacing, after \in Spacing },
        bare : { before \o payload \o after : before \in Spacing, after \in Spacing }]

(* responses holds the two responses of one payload, jsonContents what      *)
(* extractJsonFromResponse returned for each and parseResults what          *)
(* parseParameterResponse returned or threw for each.                       *)

ParseInit ==
    /\ \E name \in DOMAIN Payloads : responses \in Responses(Payloads[name])
    /\ jsonContents = [w \in {"fenced", "bare"} |-> [kind |-> "none"]]
    /\ parseResults = [w \in {"fenced", "bare"} |-> [kind |-> "none"]]
    /\ ExecIdle
    /\ UrlIdle
    /\ OrchIdle
    /\ CacheIdle
    /\ RenderIdle
    /\ ConcIdle
    /\ ClassifyIdle
    /\ StreamIdle

\* const jsonContent = this.extractJsonFromResponse(response)
ExtractJson(w) ==
    /\ jsonContents[w].kind = "none"
    /\ jsonContents' =
          [jsonContents EXCEPT ![w] =
              [kind |-> "text", text |-> extractJsonFromResponse(responses[w])]]
    /\ UNCHANGED <<responses, parseResults>>
    /\ UNCHANGED notParseVars

\* JSON.parse(jsonContent) and the rest of parseParameterResponse.
ParseJson(w) ==
    /\ jsonContents[w].kind = "text"
    /\ parseResults[w] = [kind |-> "none"]
    /\ parseResults' =
          [parseResults EXCEPT ![w] = parseParameterResponse(JSONParse(jsonContents[w].text))]
    /\ UNCHANGED <<responses, jsonContents>>
    /\ UNCHANGED notParseVars

ParseNext ==
    \/ \E w \in {"fenced", "bare"} : ExtractJson(w)
    \/ \E w \in {"fenced", "bare"} : ParseJson(w)

SpecParse == ParseInit /\ [][ParseNext]_vars

----------------------------------------------------------------------------
(* Properties of parseParameterResponse *)

\* C21: the response that carries a payload in a fenced code block and the
\* response that carries the same payload without a wrapper parse to the
\* same result.
C21_FencedAndBareParseAlike ==
    (parseResults["fenced"] # [kind |-> "none"] /\ parseResults["bare"] # [kind |-> "none"]) =>
        parseResults["fenced"] = parseResults["bare"]

----------------------------------------------------------------------------
(* Rendering a body schema for the prompt: formatRequestBodySchema,         *)
(* formatSchemaFields, getFieldType and formatNestedObject of               *)
(* SwaggerService.  The calls of formatNestedObject are the frames of a     *)
(* call stack, so that a run that does not return is a behaviour and not a  *)
(* definition without a value.  The fields of the model carry no            *)
(* description, example or enum.                                            *)

MaxStack == 3

\* A field of a schema: type ("" without one), allOf (a sequence of
\* [ref, type]), $ref (<<>> without one) and items (Undefined or a field).
FieldInfo(type, allOf, ref, items) ==
    [type |-> type, allOf |-> allOf, ref |-> ref, items |-> items]

\* A component schema: its type and its properties, an object whose fields
\* are in the order of the document, or Undefined.
Schema(type, properties) == [t |-> "object", type |-> type, properties |-> properties]

\* The fields a property of the model can have.
FieldInfos ==
    LET to(name) == ComponentsSchemas \o <<name>> IN
    { FieldInfo("string", <<>>, <<>>, Undefined),
      FieldInfo("", <<>>, to("A"), Undefined),
      FieldInfo("", <<>>, to("B"), Undefined),
      FieldInfo("", <<>>, to("C"), Undefined),
      FieldInfo("", <<[ref |-> to("B"), type |-> ""]>>, <<>>, Undefined),
      FieldInfo("", <<>>, <<>>, FieldInfo("", <<>>, to("A"), Undefined)),
      FieldInfo("", <<>>, <<>>, FieldInfo("number", <<>>, <<>>, Undefined)),
      FieldInfo("", <<>>, <<>>, Undefined) }

\* The interface documents of the model: components.schemas has A, an
\* object of up to two properties, and B, such an object or a string; C is
\* not in it.
RenderDocuments ==
    LET Fields == {<<>>} \cup { <<f>> : f \in FieldInfos }
                             \cup { <<f, g>> : f \in FieldInfos,
                                      g \in { FieldInfo("string", <<>>, <<>>, Undefined),
                                              FieldInfo("", <<>>, ComponentsSchemas \o <<"A">>,
                                                        Undefined) } }
        Properties == { [t |-> "object", fields |-> fs] : fs \in Fields }
    IN { Document({}, { [name |-> "A", schema |-> Schema("object", a)],
                        [name |-> "B", schema |-> b] }) :
           a \in Properties,
           b \in { Schema("object", q) : q \in Properties }
                 \cup { Schema("string", Undefined) } }

\* What getFieldType does with a field: the text it returns, or the call of
\* formatNestedObject it makes on the schema a reference resolved to, with
\* the array<...> wrappers around it.
RECURSIVE getFieldType(_, _)
getFieldType(fieldInfo, swaggerJson) ==
    LET text(v) == [kind |-> "text", text |-> v, wrappers |-> 0]
        byRef(ref) ==
            LET resolvedSchema == resolveSchemaRef(ref, swaggerJson) IN
            IF resolvedSchema.t # "ref"
            THEN [kind |-> "call", schema |-> resolvedSchema, wrappers |-> 0,
                  name |-> Chars2Str(split(ref, "/")[Len(split(ref, "/"))])]
            ELSE text("object (" \o Chars2Str(split(ref, "/")[Len(split(ref, "/"))]) \o ")")
    IN
    IF fieldInfo.type # "" THEN text(fieldInfo.type)
    ELSE IF Len(fieldInfo.allOf) > 0 /\ fieldInfo.allOf[1].ref # <<>>
    THEN byRef(fieldInfo.allOf[1].ref)
    ELSE IF Len(fieldInfo.allOf) > 0 /\ fieldInfo.allOf[1].type # ""
    THEN text(fieldInfo.allOf[1].type)
    ELSE IF fieldInfo.ref # <<>> THEN byRef(fieldInfo.ref)
    ELSE IF fieldInfo.items # Undefined
    THEN LET itemType == getFieldType(fieldInfo.items, swaggerJson) IN
         [itemType EXCEPT !.wrappers = @ + 1]
    ELSE text("unknown")

\* schema.type === 'object' && schema.properties
hasFields(schema) == schema.type = "object" /\ schema.properties # Undefined

\* The frame of a call that goes through the properties of a schema: name
\* is the schema a reference was resolved to, k the property the loop is at.
Frame(name, schema, wrappers) ==
    [name |-> name, properties |-> schema.properties.fields, k |-> 1, wrappers |-> wrappers]

(* renderJson is the interface document and requestBody the schema that     *)
(* getEndpointSchema resolved the body reference to.  frames is the stack   *)
(* of the calls in progress, the first of formatSchemaFields and the later  *)
(* ones of formatNestedObject; description is the text built so far, piece  *)
(* by piece (the header of formatSchemaFields, the type of a field, the     *)
(* opening and the closing of a nested object); rendered is what            *)
(* formatRequestBodySchema returned, or the RangeError of a call stack that *)
(* is used up.                                                              *)

RenderInit ==
    /\ renderJson \in RenderDocuments
    /\ requestBody = resolveSchemaRef(ComponentsSchemas \o <<"A">>, renderJson)
    /\ frames = <<>>
    /\ description = <<>>
    /\ rendered = [kind |-> "none"]
    /\ ExecIdle
    /\ UrlIdle
    /\ OrchIdle
    /\ CacheIdle
    /\ ParseIdle
    /\ ConcIdle
    /\ ClassifyIdle
    /\ StreamIdle

\* formatRequestBodySchema: an object with properties goes to
\* formatSchemaFields, any other schema is returned as JSON text.
FormatRequestBodySchema ==
    /\ rendered.kind = "none"
    /\ frames = <<>>
    /\ IF hasFields(requestBody)
       THEN /\ frames' = <<Frame("A", requestBody, 0)>>
            /\ description' = <<[kind |-> "header"]>>
            /\ rendered' = [kind |-> "started"]
       ELSE /\ rendered' = [kind |-> "text", text |-> <<"JSON.stringify(schema)">>]
            /\ UNCHANGED <<frames, description>>
    /\ UNCHANGED <<renderJson, requestBody>>
    /\ UNCHANGED notRenderVars

\* The loop of the call on top takes its next property: getFieldType, and
\* with a resolved reference the call of formatNestedObject.
FormatField ==
    /\ frames # <<>>
    /\ LET top == frames[Len(frames)] IN
       /\ top.k <= Len(top.properties)
       /\ LET fieldType == getFieldType(top.properties[top.k], renderJson)
              next == [frames EXCEPT ![Len(frames)].k = @ + 1]
          IN
          IF fieldType.kind = "text"
          THEN /\ description' = Append(description, fieldType)
               /\ frames' = next
               /\ rendered' = rendered
          ELSE IF ~hasFields(fieldType.schema)
          THEN /\ description' =
                     Append(description,
                            [kind |-> "text", wrappers |-> fieldType.wrappers,
                             text |-> "object (" \o (IF fieldType.schema.type = ""
                                                     THEN "unknown"
                                                     ELSE fieldType.schema.type) \o ")"])
               /\ frames' = next
               /\ rendered' = rendered
          ELSE IF Len(frames) >= MaxStack
          THEN /\ rendered' = [kind |-> "throw", name |-> "RangeError",
                               message |-> "Maximum call stack size exceeded"]
               /\ frames' = <<>>
               /\ description' = description
          ELSE /\ frames' = Append(frames, Frame(fieldType.name, fieldType.schema,
                                                 fieldType.wrappers))
               /\ description' = Append(description, [kind |-> "open", wrappers |-> fieldType.wrappers])
               /\ rendered' = rendered
    /\ UNCHANGED <<renderJson, requestBody>>
    /\ UNCHANGED notRenderVars

\* The loop of the call on top is through: formatNestedObject returns to the
\* loop that called it, formatSchemaFields to formatRequestBodySchema.
FormatReturn ==
    /\ frames # <<>>
    /\ LET top == frames[Len(frames)] IN
       /\ top.k > Len(top.properties)
       /\ IF Len(frames) = 1
          THEN /\ frames' = <<>>
               /\ description' = description
               /\ rendered' = [kind |-> "text", text |-> description]
          ELSE /\ frames' = [SubSeq(frames, 1, Len(frames) - 1)
                                EXCEPT ![Len(frames) - 1].k = @ + 1]
               /\ description' = Append(description, [kind |-> "close", wrappers |-> top.wrappers])
               /\ rendered' = rendered
    /\ UNCHANGED <<renderJson, requestBody>>
    /\ UNCHANGED notRenderVars

RenderNext ==
    \/ FormatRequestBodySchema
    \/ FormatField
    \/ FormatReturn

SpecRender == RenderInit /\ [][RenderNext]_vars

----------------------------------------------------------------------------
(* Properties of the rendering *)

\* C24: the rendering of a body schema never has a schema name twice among
\* the references it is resolving, and it ends with a text, in which a
\* reference that closes a cycle shows as the unresolved reference, never
\* with a call stack that is used up.
C24_NoNameIsRevisited ==
    /\ \A i, j \in 1..Len(frames) : i # j => frames[i].name # frames[j].name
    /\ rendered.kind # "throw"

----------------------------------------------------------------------------
(* Plan runs that call fetchSwaggerJson at the same time.  The service is a *)
(* singleton, so the runs share swaggerCache; a run gives up control at the *)
(* await of httpService.get and nowhere else in fetchSwaggerJson.  A        *)
(* document carries the location it was served from and its version there.  *)

MaxRuns == 2

MaxVersion == 2

\* The document a location serves in a version.
Served(url, version) == [t |-> "object", from |-> url, version |-> version]

(* runs[r] is what run r does: pc is "idle", "fetching" (at the await, the  *)
(* request under way), "answered" (at the await, the response under way)    *)
(* or "returned"; url is the location it asked for, response the response   *)
(* under way and got what fetchSwaggerJson returned or threw.  concCache is *)
(* swaggerCache and concServer the version each location serves now.        *)

\* A run between two calls of fetchSwaggerJson.
IdleRun == [pc |-> "idle", url |-> "", response |-> None, got |-> [kind |-> "none"]]

ConcInit ==
    /\ runs = [r \in 1..MaxRuns |-> IdleRun]
    /\ concCache = [u \in Urls |-> None]
    /\ concServer = [u \in Urls |-> 1]
    /\ ExecIdle
    /\ UrlIdle
    /\ OrchIdle
    /\ CacheIdle
    /\ ParseIdle
    /\ RenderIdle
    /\ ClassifyIdle
    /\ StreamIdle

\* Run r calls fetchSwaggerJson(url): the cached document is returned, or
\* the request is sent and the run waits.
FetchSwaggerJson(r, url) ==
    /\ runs[r].pc = "idle"
    /\ runs' = [runs EXCEPT ![r] =
                  IF has(concCache, url)
                  THEN [pc |-> "returned", url |-> url, response |-> None,
                        got |-> [kind |-> "return", data |-> concCache[url]]]
                  ELSE [pc |-> "fetching", url |-> url, response |-> None,
                        got |-> [kind |-> "none"]]]
    /\ UNCHANGED <<concCache, concServer>>
    /\ UNCHANGED notConcVars

\* The location answers the request of run r with the document it serves.
ServerAnswer(r) ==
    /\ runs[r].pc = "fetching"
    /\ runs' = [runs EXCEPT ![r].pc = "answered",
                            ![r].response = Served(runs[r].url, concServer[runs[r].url])]
    /\ UNCHANGED <<concCache, concServer>>
    /\ UNCHANGED notConcVars

\* The response of run r's request arrives: response.data is cached under
\* the url of the call and returned.
FetchResponse(r) ==
    /\ runs[r].pc = "answered"
    /\ concCache' = set(concCache, runs[r].url, runs[r].response)
    /\ runs' = [runs EXCEPT ![r].pc = "returned", ![r].response = None,
                            ![r].got = [kind |-> "return", data |-> runs[r].response]]
    /\ UNCHANGED concServer
    /\ UNCHANGED notConcVars

\* The request of run r fails: fetchSwaggerJson throws BadRequestException.
FetchError(r) ==
    /\ runs[r].pc \in {"fetching", "answered"}
    /\ runs' = [runs EXCEPT ![r].pc = "returned", ![r].response = None,
                            ![r].got = [kind |-> "throw", name |-> "BadRequestException"]]
    /\ UNCHANGED <<concCache, concServer>>
    /\ UNCHANGED notConcVars

\* Run r goes on to its next lookup.
NextLookup(r) ==
    /\ runs[r].pc = "returned"
    /\ runs' = [runs EXCEPT ![r] = IdleRun]
    /\ UNCHANGED <<concCache, concServer>>
    /\ UNCHANGED notConcVars

\* A location serves a new version of its document.
NewVersion(url) ==
    /\ concServer[url] < MaxVersion
    /\ concServer' = [concServer EXCEPT ![url] = @ + 1]
    /\ UNCHANGED <<runs, concCache>>
    /\ UNCHANGED notConcVars

ConcNext ==
    \/ \E r \in 1..MaxRuns : \E url \in Urls : FetchSwaggerJson(r, url)
    \/ \E r \in 1..MaxRuns : ServerAnswer(r)
    \/ \E r \in 1..MaxRuns : FetchResponse(r)
    \/ \E r \in 1..MaxRuns : FetchError(r)
    \/ \E r \in 1..MaxRuns : NextLookup(r)
    \/ \E url \in Urls : NewVersion(url)

SpecConc == ConcInit /\ [][ConcNext]_vars

----------------------------------------------------------------------------
(* Properties of the shared cache *)

\* C25: with several runs resolving at the same time, every document a run
\* gets from fetchSwaggerJson was served by the location the run asked for,
\* and every cache entry holds a document served by the location it is
\* stored under.
C25_CacheKeepsLocations ==
    /\ \A r \in 1..MaxRuns :
          runs[r].got.kind = "return" => runs[r].got.data.from = runs[r].url
    /\ \A u \in Urls : concCache[u] # None => concCache[u].from = u

\* Two runs fetched the same location at the same time and got two versions
\* of its document; the older version arrived last and is the entry of the
\* location, and the other location is cached as well.
C25_Witness ==
    /\ runs[1].pc = "returned" /\ runs[2].pc = "returned"
    /\ runs[1].url = runs[2].url
    /\ runs[1].got.kind = "return" /\ runs[2].got.kind = "return"
    /\ runs[1].got.data.version = 1 /\ runs[2].got.data.version = 2
    /\ concCache[runs[1].url] = runs[1].got.data
    /\ \A u \in Urls : concCache[u] # None

----------------------------------------------------------------------------
(* ClassifierService.classifyRequest: the backend call, parseTasks and      *)
(* ensureGenerateAtEnd.  The response is a sequence of one-character        *)
(* strings; its lines hold no carriage return.                              *)

MaxLines == 3

\* enum Command
Command == [GENERATE |-> "GENERATE", HTTP_TOOL |-> "HTTP_TOOL"]

\* CommandTask
CommandTask(command, prompt) == [command |-> command, prompt |-> prompt]

\* The user's message.
Message == <<"h", "i">>

\* String.prototype.toUpperCase on the letters of the command names.
toUpperCase(cs) ==
    LET upper(c) ==
            CASE c = "h" -> "H" [] c = "t" -> "T" [] c = "p" -> "P" [] c = "o" -> "O"
              [] c = "l" -> "L" [] c = "g" -> "G" [] c = "e" -> "E" [] c = "n" -> "N"
              [] c = "r" -> "R" [] c = "a" -> "A" [] OTHER -> c
    IN [k \in 1..Len(cs) |-> upper(cs[k])]

\* line.match(/^(HTTP_TOOL|GENERATE):\s*(.+)$/i): the two groups, or no
\* match.  The second group starts after the white space that follows the
\* colon; when nothing but white space follows, it is the last character.
matchTask(line) ==
    LET names == { <<"H", "T", "T", "P", "_", "T", "O", "O", "L">>,
                   <<"G", "E", "N", "E", "R", "A", "T", "E">> }
        found == { n \in names :
                     /\ Len(line) > Len(n)
                     /\ toUpperCase(SubSeq(line, 1, Len(n))) = n
                     /\ line[Len(n) + 1] = ":" }
    IN IF found = {} THEN [matched |-> FALSE]
       ELSE LET n == CHOOSE c \in found : TRUE
                rest == SubSeq(line, Len(n) + 2, Len(line))
            IN IF rest = <<>> THEN [matched |-> FALSE]
               ELSE [matched |-> TRUE,
                     command |-> SubSeq(line, 1, Len(n)),
                     prompt |-> IF trimStart(rest) = <<>> THEN <<rest[Len(rest)]>>
                                ELSE trimStart(rest)]

\* parseTasks(response, originalMessage)
parseTasks(response, originalMessage) ==
    LET lines == SelectSeq(split(response, "\n"), LAMBDA line : trim(line) # <<>>)
        matches == SelectSeq([k \in 1..Len(lines) |-> matchTask(lines[k])],
                             LAMBDA m : m.matched)
        found == [k \in 1..Len(matches) |->
                     CommandTask(Chars2Str(toUpperCase(matches[k].command)),
                                 trim(matches[k].prompt))]
    IN IF Len(found) = 0
       THEN <<CommandTask(Command.GENERATE, originalMessage)>>
       ELSE found

\* ensureGenerateAtEnd that leaves the tasks as they were parsed.
ensureGenerateAtEndAsParsed(ts) == ts

\* ensureGenerateAtEnd(tasks)
ensureGenerateAtEnd(ts) ==
    LET filteredTasks == SelectSeq(ts, LAMBDA task : task.command # Command.GENERATE)
        generated == SelectSeq(ts, LAMBDA task : task.command = Command.GENERATE)
    IN IF generated # <<>>
       THEN Append(filteredTasks, generated[1])
       ELSE Append(filteredTasks,
                   CommandTask(Command.GENERATE, <<"Sformirovat' otvet pol'zovatelyu">>))

\* The lines a response of the backend is made of: task lines in upper and
\* lower case, with and without a prompt, an indented one, prose and an
\* empty line.
ResponseLines ==
    LET HT == <<"H", "T", "T", "P", "_", "T", "O", "O", "L">>
        ht == <<"h", "t", "t", "p", "_", "t", "o", "o", "l">>
        GE == <<"G", "E", "N", "E", "R", "A", "T", "E">>
        ge == <<"g", "e", "n", "e", "r", "a", "t", "e">>
    IN { HT \o <<":", " ", "a">>, ht \o <<":", "b">>, HT \o <<":", " ", "c", " ">>,
         GE \o <<":", " ", "g">>, ge \o <<":", "\t", "h">>,
         GE \o <<":">>, GE \o <<":", " ", " ">>,
         <<" ">> \o GE \o <<":", " ", "x">>,
         <<"n", "o", "t", "e">>, <<>> }

\* The responses: up to MaxLines lines joined by line feeds.
RECURSIVE ClassifierResponses(_)
ClassifierResponses(n) ==
    IF n = 0 THEN {<<>>}
    ELSE ClassifierResponses(n - 1)
         \cup { line \o <<"\n">> \o r : line \in ResponseLines, r \in ClassifierResponses(n - 1) }

(* clsPc is "idle", "awaiting" (the backend call), "parsed" (parseTasks     *)
(* has returned) or "returned"; clsResponse is response.content, clsTasks   *)
(* what parseTasks returned and clsResult what classifyRequest returned or  *)
(* threw.                                                                   *)

ClassifyInit ==
    /\ clsPc = "idle"
    /\ clsResponse = <<>>
    /\ clsTasks = <<>>
    /\ clsResult = [kind |-> "none"]
    /\ ExecIdle
    /\ UrlIdle
    /\ OrchIdle
    /\ CacheIdle
    /\ ParseIdle
    /\ RenderIdle
    /\ ConcIdle
    /\ StreamIdle

\* classifyRequest(message) up to the await of generateAnswer.
ClassifyRequest ==
    /\ clsPc = "idle"
    /\ clsPc' = "awaiting"
    /\ UNCHANGED <<clsResponse, clsTasks, clsResult>>
    /\ UNCHANGED notClassifyVars

\* generateAnswer returns a content, which parseTasks takes apart.
GenerateAnswerReturn ==
    /\ clsPc = "awaiting"
    /\ \E response \in ClassifierResponses(MaxLines) \ {<<>>} :
         /\ clsResponse' = response
         /\ clsTasks' = parseTasks(response, Message)
    /\ clsPc' = "parsed"
    /\ UNCHANGED clsResult
    /\ UNCHANGED notClassifyVars

\* generateAnswer throws (the call failed, or the content was empty): the
\* catch block returns one GENERATE task with the message.
GenerateAnswerThrow ==
    /\ clsPc = "awaiting"
    /\ clsResult' = [kind |-> "return",
                     tasks |-> <<CommandTask(Command.GENERATE, Message)>>]
    /\ clsPc' = "returned"
    /\ UNCHANGED <<clsResponse, clsTasks>>
    /\ UNCHANGED notClassifyVars

\* ensureGenerateAtEnd and the return of classifyRequest.
EnsureGenerateAtEnd ==
    /\ clsPc = "parsed"
    /\ clsResult' = [kind |-> "return", tasks |-> ensureGenerateAtEnd(clsTasks)]
    /\ clsPc' = "returned"
    /\ UNCHANGED <<clsResponse, clsTasks>>
    /\ UNCHANGED notClassifyVars

ClassifyNext ==
    \/ ClassifyRequest
    \/ GenerateAnswerReturn
    \/ GenerateAnswerThrow
    \/ EnsureGenerateAtEnd

SpecClassify == ClassifyInit /\ [][ClassifyNext]_vars

----------------------------------------------------------------------------
(* Properties of classifyRequest *)

\* C29: classifyRequest returns, whatever the backend did; what it returns
\* is a task list that is not empty, whose last task is its only GENERATE
\* task, and whose HTTP_TOOL tasks are those of the response in their order.
C29_GenerateIsLastAndOnly ==
    /\ clsResult.kind # "throw"
    /\ clsPc = "returned" =>
          /\ clsResult.kind = "return"
          /\ LET ts == clsResult.tasks IN
             /\ Len(ts) >= 1
             /\ ts[Len(ts)].command = Command.GENERATE
             /\ \A k \in 1..(Len(ts) - 1) : ts[k].command = Command.HTTP_TOOL
             /\ SubSeq(ts, 1, Len(ts) - 1) =
                   SelectSeq(clsTasks, LAMBDA task : task.command = Command.HTTP_TOOL)

\* The response had an HTTP_TOOL line, a GENERATE line and another HTTP_TOOL
\* line in lower case; the result keeps the two HTTP_TOOL tasks in their
\* order and ends with the GENERATE task.
C29_Witness ==
    /\ clsPc = "returned"
    /\ Len(clsTasks) = 3
    /\ clsTasks[1].command = "HTTP_TOOL" /\ clsTasks[2].command = "GENERATE"
    /\ clsTasks[3] = CommandTask("HTTP_TOOL", <<"b">>)
    /\ clsResult.tasks = <<clsTasks[1], clsTasks[3], clsTasks[2]>>

----------------------------------------------------------------------------
(* AgentOrchestratorService.processQueryStream: the run of                  *)
(* processQueryWithStreaming, the calls it makes on its subscriber, the     *)
(* outbound calls it starts, and the subscriber that unsubscribes.  The     *)
(* Observable's subscribe function returns no teardown.  The plan is a      *)
(* number of steps; a step is its backend call and its HTTP call.           *)

MaxSteps == 2

\* StreamEvent: type and data.status.
StreamEvent(type, status) == [type |-> type, status |-> status]

\* The events of the run from apiPlan completed on, up to the await of
\* buildResponse.
AfterHttpTool(res) ==
    <<StreamEvent("apiPlan", "completed")>>
    \o (IF res.t # "null" THEN <<StreamEvent("executionResults", "completed")>> ELSE <<>>)
    \o <<StreamEvent("finalResponse", "started")>>

\* subscriber.next of finalResponse completed, then subscriber.complete().
Completed == <<StreamEvent("finalResponse", "completed"), StreamEvent("complete", "")>>

(* strPc is where the run is: "idle", "classify", "plan", "stepAi",         *)
(* "stepHttp", "format" (each at the await of an outbound call) or "ended". *)
(* strTasks is classification.tasks, strPlan the plan (its number of steps) *)
(* or null, strStep the step executePlan is at, strResults the execution    *)
(* results (the success of each) or null.  events lists the calls made on   *)
(* the subscriber, outbound the outbound calls started, each with whether   *)
(* the subscriber had unsubscribed; closed says that it has; failures      *)
(* holds the stages that failed.                                            *)

StreamInit ==
    /\ strPc = "idle"
    /\ strTasks = <<>>
    /\ strPlan = [t |-> "null"]
    /\ strStep = 0
    /\ strResults = [t |-> "null"]
    /\ events = <<>>
    /\ outbound = <<>>
    /\ closed = FALSE
    /\ failures = {}
    /\ ExecIdle
    /\ UrlIdle
    /\ OrchIdle
    /\ CacheIdle
    /\ ParseIdle
    /\ RenderIdle
    /\ ConcIdle
    /\ ClassifyIdle

\* An outbound call starts.
Call(stage) == outbound' = Append(outbound, [stage |-> stage, closed |-> closed])

\* The run ending in the catch block where it has nothing to format.
EndWithError(before) ==
    /\ events' = events \o before \o <<StreamEvent("error", "processing")>>
    /\ strPc' = "ended"
    /\ outbound' = outbound

\* buildResponse without execution results makes no call: finalResponse
\* completed and complete() follow at once.
EndWithoutResults(before) ==
    /\ events' = events \o before \o Completed
    /\ strPc' = "ended"
    /\ outbound' = outbound

\* executePlan has returned: the events up to finalResponse started, then
\* buildResponse calls the formatter.
EndOfExecution(res) ==
    /\ strResults' = [t |-> "array", items |-> res]
    /\ events' = events \o AfterHttpTool([t |-> "array", items |-> res])
    /\ strPc' = "format"
    /\ Call("format")

\* processQueryWithStreaming starts: classification started, classifyRequest.
StreamStart ==
    /\ strPc = "idle"
    /\ events' = Append(events, StreamEvent("classification", "started"))
    /\ strPc' = "classify"
    /\ Call("classify")
    /\ UNCHANGED <<strTasks, strPlan, strStep, strResults, closed, failures>>
    /\ UNCHANGED notStreamVars

\* classifyRequest returns: classification completed; with an HTTP_TOOL task
\* apiPlan started and planApiCalls, without one buildResponse.
StreamClassified ==
    /\ strPc = "classify"
    /\ \E ts \in TaskLists :
         /\ strTasks' = ts
         /\ IF hasHttpTool(ts)
            THEN /\ events' = events \o <<StreamEvent("classification", "completed"),
                                          StreamEvent("apiPlan", "started")>>
                 /\ strPc' = "plan"
                 /\ Call("plan")
            ELSE EndWithoutResults(<<StreamEvent("classification", "completed"),
                                     StreamEvent("finalResponse", "started")>>)
    /\ UNCHANGED <<strPlan, strStep, strResults, closed, failures>>
    /\ UNCHANGED notStreamVars

\* planApiCalls returns a plan or throws; a plan with steps is executed.
StreamPlanned ==
    /\ strPc = "plan"
    /\ \/ /\ failures' = failures \cup {"planning"}
          /\ EndWithoutResults(AfterHttpTool([t |-> "null"]))
          /\ UNCHANGED <<strPlan, strStep>>
       \/ /\ strPlan' = [t |-> "object", steps |-> 0]
          /\ EndWithoutResults(AfterHttpTool([t |-> "null"]))
          /\ UNCHANGED <<strStep, failures>>
       \/ \E n \in 1..MaxSteps :
            /\ strPlan' = [t |-> "object", steps |-> n]
            /\ strStep' = 1
            /\ strPc' = "stepAi"
            /\ Call("stepAi")
            /\ UNCHANGED <<events, failures>>
    /\ UNCHANGED <<strTasks, strResults, closed>>
    /\ UNCHANGED notStreamVars

\* The backend call of the step ends: with parameters the HTTP call starts,
\* without them the step has failed and executePlan returns.
StreamStepGenerated ==
    /\ strPc = "stepAi"
    /\ \/ /\ strPc' = "stepHttp"
          /\ Call("stepHttp")
          /\ UNCHANGED <<strResults, events, failures>>
       \/ /\ failures' = failures \cup {"execution"}
          /\ EndOfExecution([k \in 1..strStep |-> k < strStep])
    /\ UNCHANGED <<strTasks, strPlan, strStep, closed>>
    /\ UNCHANGED notStreamVars

\* The HTTP call of the step ends: after a success the next step starts or
\* executePlan returns, after a failure executePlan returns.
StreamStepDone ==
    /\ strPc = "stepHttp"
    /\ \/ /\ strStep < strPlan.steps
          /\ strStep' = strStep + 1
          /\ strPc' = "stepAi"
          /\ Call("stepAi")
          /\ UNCHANGED <<strResults, events, failures>>
       \/ /\ strStep = strPlan.steps
          /\ EndOfExecution([k \in 1..strStep |-> TRUE])
          /\ UNCHANGED <<strStep, failures>>
       \/ /\ failures' = failures \cup {"execution"}
          /\ EndOfExecution([k \in 1..strStep |-> k < strStep])
          /\ UNCHANGED strStep
    /\ UNCHANGED <<strTasks, strPlan, closed>>
    /\ UNCHANGED notStreamVars

\* formatFinalResponse returns (finalResponse completed, complete()) or
\* throws (the catch block: subscriber.error).
StreamFormatted ==
    /\ strPc = "format"
    /\ \/ events' = events \o Completed /\ failures' = failures
       \/ /\ events' = Append(events, StreamEvent("error", "processing"))
          /\ failures' = failures \cup {"format"}
    /\ strPc' = "ended"
    /\ UNCHANGED <<strTasks, strPlan, strStep, strResults, outbound, closed>>
    /\ UNCHANGED notStreamVars

\* The client disconnects: the subscriber unsubscribes.  No teardown runs.
Unsubscribe ==
    /\ strPc \notin {"idle", "ended"}
    /\ ~closed
    /\ closed' = TRUE
    /\ UNCHANGED <<strPc, strTasks, strPlan, strStep, strResults, events, outbound, failures>>
    /\ UNCHANGED notStreamVars

StreamNext ==
    \/ StreamStart
    \/ StreamClassified
    \/ StreamPlanned
    \/ StreamStepGenerated
    \/ StreamStepDone
    \/ StreamFormatted
    \/ Unsubscribe

SpecStream == StreamInit /\ [][StreamNext]_vars

----------------------------------------------------------------------------
(* Properties of the event stream *)

\* An outbound call is under way.
InFlight == strPc \in {"classify", "plan", "stepAi", "stepHttp", "format"}

\* C28: when the run is cancelled, the outbound call under way is aborted
\* and no outbound call starts afterwards: no later step, no resumed step.
C28_CancelStopsTheRun ==
    [][/\ closed' => ~InFlight'
       /\ closed => (outbound' = outbound /\ strStep' = strStep)]_vars

\* The terminal signals.
Terminal == {StreamEvent("complete", ""), StreamEvent("error", "processing")}

\* The events of a run that completes, in their order.
ExpectedEvents ==
    <<StreamEvent("classification", "started"), StreamEvent("classification", "completed")>>
    \o (IF hasHttpTool(strTasks)
        THEN <<StreamEvent("apiPlan", "started")>> \o AfterHttpTool(strResults)
        ELSE <<StreamEvent("finalResponse", "started")>>)
    \o <<StreamEvent("finalResponse", "completed")>>

\* C30: a run ends with exactly one terminal signal and calls nothing on the
\* subscriber after it; the events before it are, in this order,
\* classification started and completed, with an HTTP_TOOL task apiPlan
\* started and completed and with results executionResults completed, then
\* finalResponse started and completed; and a run in which planning or
\* execution failed ends with complete unless the formatter failed.
C30_OneTerminalAfterOrderedEvents ==
    LET n == Len(events)
        ended == n > 0 /\ events[n] \in Terminal
        body == IF ended THEN SubSeq(events, 1, n - 1) ELSE events
    IN /\ ended <=> strPc = "ended"
       /\ \A k \in 1..Len(body) : body[k] \notin Terminal
       /\ Len(body) <= Len(ExpectedEvents)
       /\ body = SubSeq(ExpectedEvents, 1, Len(body))
       /\ (ended /\ events[n].type = "complete") => body = ExpectedEvents
       /\ (ended /\ events[n].type = "error") => "format" \in failures

\* A run whose planning failed and a run whose second step failed ended
\* with complete; here the second step failed, the results were sent and
\* the stream completed.
C30_Witness ==
    /\ strPc = "ended"
    /\ failures = {"execution"}
    /\ strResults = [t |-> "array", items |-> <<TRUE, FALSE>>]
    /\ Len(events) = 8
    /\ events[5] = StreamEvent("executionResults", "completed")
    /\ events[8] = StreamEvent("complete", "")

====
